---- MODULE Spec2Model ----
(***************************************************************************)
(* A model of the nowcast-template repository.                             *)
(*                                                                         *)
(*   Part I    SensorUpdate.update / update_single (sensors/sensor_update) *)
(*   Part II   DatasetnameLocationMapper.determine_statespace and its memo *)
(*             (fusion/datasetname_location_mapper)                        *)
(*   Part III  ISCH.train / predict (sensors/isch)                         *)
(*   Part IV   SensorFitting.fit_loch_ness and its kernel                  *)
(*   Part V    Nowcast.compute_nowcast over determine_statespace           *)
(*   Part VI   target_update.main and the table datasetname_targets        *)
(*   Part VII  DatasetnameDataSource (util/datasetname_data_source)        *)
(*                                                                         *)
(* Each part has its own specification (SpecUpdate, SpecStatespace,        *)
(* SpecMemo, SpecIsch, SpecFit, SpecKernel, SpecNowcast, SpecTarget,       *)
(* SpecSource); the variables of the other parts keep their initial values.*)
(***************************************************************************)
EXTENDS Integers, Sequences, FiniteSets, TLC

VARIABLES
  \* ---- Part I: SensorUpdate ----
  sensors,        \* argument of update: a list of (name, loc) pairs
  first_week,     \* argument of update: None or an epiweek
  last_week,      \* argument of update: None or an epiweek
  valid,          \* self.valid
  target,         \* self.target
  pc,             \* position of update()
  idx,            \* position of "for (name, loc) in sensors"
  locations,      \* what is left of "for location in get_location_list(loc)"
  location,       \* the loop variable "location"
  weeks,          \* what is left of "for test_week in range_epiweeks(...)"
  starts,         \* history: per (name, location) pair, the start-week resolution
  schedule,       \* history: the update_single invocations, in order
  lastCall,       \* history: the last update_single invocation and its outcome
  firstFailedPair,\* history: the (name, location) pair, by its ordinal in starts, where an
                  \* implementation first raised (0: none has)
  entered,        \* number of database.__enter__ calls
  exited,         \* number of database.__exit__ calls
  lastInsertCtx,  \* history: (entered, exited) when database.insert was last called
  error,          \* the exception that left update(), if any
  \* ---- Part II: determine_statespace ----
  ss_pc,              \* position of determine_statespace
  input_locations,    \* argument
  data_source,        \* argument (name of a data source)
  season,             \* argument: None or a year
  exclude_locations,  \* argument
  all_locations,      \* local: the filtered catalogue
  atoms,              \* local: the filtered atom list
  H0,                 \* local: weight rows of input_locations (None until built)
  W0,                 \* local: weight rows of all_locations (None until built)
  rowsBuilt,          \* history: number of get_weight_row calls that returned
  reducerCalls,       \* history: the arguments of each fusion.determine_statespace call
  reducerAnswer,      \* local: what the reducer returned: H, W, selected_rows
  result,             \* the returned triple (None until returned)
  ss_error,           \* the exception that left determine_statespace, if any
  \* ---- Part II, the memo: functools.lru_cache(maxsize=16) ----
  memo,               \* the cache: entries (key, value), least recently used first
  call_key,           \* the key of the call under way (None between calls)
  hit,                \* whether the call under way was answered from the cache
  callLog,            \* history: key, outcome and work of each call that has ended
  cursor,             \* how many keys of the caller's list have been asked for
  repeats,            \* how many times the caller has asked again for an earlier key
  \* ---- Part III: ISCH (sensors/isch) ----
  data,               \* self.data, as the weeks it has an observation for (None: no instance)
  model,              \* self.model (None: the attribute is not set)
  training_week,      \* self.training_week (None: the attribute is not set)
  isch_last,          \* history: the last call of train or predict and how it ended
  \* ---- Part IV: SensorFitting.fit_loch_ness (sensors/sensor_update) ----
  fit_call,           \* the arguments and the fetched rows of the call (None: no call)
  fit_result,         \* how the call ended and what it computed on the way
  \* ---- Part IV, the kernel: get_weight ----
  kernel_dw,          \* two week distances (None: not chosen)
  kernel_weight,      \* their weights (None: not computed)
  \* ---- Part V: Nowcast.compute_nowcast over determine_statespace ----
  nc_call,            \* the noise levels and the readings of the call (None: no call)
  nowcast,            \* what the call returned or raised (None: not yet)
  \* ---- Part VI: target_update.main, the table datasetname_targets ----
  table,              \* the committed rows of the table, in the order of their id
  latest,             \* history: per key, the value of the last committed insert
  runs,               \* history: number of runs of main
  record_last,        \* history: the last run of main: the table before, its batch, how it ended
  \* ---- Part VII: DatasetnameDataSource (util/datasetname_data_source) ----
  source_cache,       \* self.cache, as a function of (name, location, epiweek)
  sensor_memo,        \* the lru_cache of get_sensor_value
  source_last         \* history: the last call on the data source, its requests, how it ended

updateVars == <<sensors, first_week, last_week, valid, target, pc, idx, locations,
                location, weeks, starts, schedule, lastCall, firstFailedPair, entered,
                exited, lastInsertCtx, error>>

ssVars == <<ss_pc, input_locations, data_source, season, exclude_locations,
            all_locations, atoms, H0, W0, rowsBuilt, reducerCalls, reducerAnswer,
            result, ss_error>>

memoVars == <<memo, call_key, hit, callLog, cursor, repeats>>

\* What the steps of one part leave alone.
ischVars == <<data, model, training_week, isch_last>>

fitVars == <<fit_call, fit_result>>
kernelVars == <<kernel_dw, kernel_weight>>
nowcastVars == <<nc_call, nowcast>>
targetVars == <<table, latest, runs, record_last>>
sourceVars == <<source_cache, sensor_memo, source_last>>

restOfUpdate == <<ssVars, memoVars, ischVars, fitVars, kernelVars, nowcastVars, targetVars,
                  sourceVars>>
outsideStatespace == <<updateVars, ischVars, fitVars, kernelVars, nowcastVars, targetVars,
                       sourceVars>>
restOfIsch == <<updateVars, ssVars, memoVars, fitVars, kernelVars, nowcastVars, targetVars,
                sourceVars>>
restOfFit == <<updateVars, ssVars, memoVars, ischVars, nowcastVars, targetVars, sourceVars>>
restOfKernel == <<updateVars, ssVars, memoVars, ischVars, nowcastVars, targetVars, sourceVars>>
restOfNowcast == <<updateVars, memoVars, ischVars, fitVars, kernelVars, targetVars, sourceVars>>
restOfTarget == <<updateVars, ssVars, memoVars, ischVars, fitVars, kernelVars, nowcastVars,
                  sourceVars>>
restOfSource == <<updateVars, ssVars, memoVars, ischVars, fitVars, kernelVars, nowcastVars,
                  targetVars>>
restOfStatespace == <<outsideStatespace, memoVars>>

vars == <<updateVars, ssVars, memoVars, ischVars, fitVars, kernelVars, nowcastVars, targetVars,
          sourceVars>>

\* Python's None, and an optional value x, as sequences of length 0 and 1.
None == <<>>
Some(x) == <<x>>

(***************************************************************************)
(* Epiweek calendar (delphi.utils.epiweek): an epiweek is the integer      *)
(* year * 100 + week, with 52 or 53 weeks to the year.                     *)
(***************************************************************************)
split_epiweek(ew) == <<ew \div 100, ew % 100>>

join_epiweek(year, week) == year * 100 + week

get_num_weeks(year) == IF year \in {1997, 2003, 2008, 2014, 2020} THEN 53 ELSE 52

RECURSIVE add_epiweeks(_, _)
add_epiweeks(ew, i) ==
  LET year == split_epiweek(ew)[1]
      week == split_epiweek(ew)[2]
  IN  IF i = 0 THEN ew
      ELSE IF i > 0
        THEN add_epiweeks(IF week < get_num_weeks(year)
                            THEN join_epiweek(year, week + 1)
                            ELSE join_epiweek(year + 1, 1), i - 1)
        ELSE add_epiweeks(IF week > 1
                            THEN join_epiweek(year, week - 1)
                            ELSE join_epiweek(year - 1, get_num_weeks(year - 1)), i + 1)

\* range_epiweeks(first, last, inclusive=True): every epiweek from first to last.
RECURSIVE range_epiweeks(_, _)
range_epiweeks(first, last) ==
  IF first > last THEN <<>>
  ELSE <<first>> \o range_epiweeks(add_epiweeks(first, 1), last)

(***************************************************************************)
(* Part I.  SensorUpdate (sensors/sensor_update.py)                        *)
(***************************************************************************)

\* Bounds of the model.
MaxSensors == 2

\* DatasetnameDataSource.SENSOR_LOCATIONS, cut to its first two entries.
SENSOR_LOCATIONS == <<"ak", "al">>

\* The keys of SensorGetter.get_sensor_implementations().
Implementations == {"isch", "ght", "nsnd4", "nsnd7"}

\* The week update() starts at when nothing is stored and no start is given.
BootstrapWeek == 201040

\* The inputs of the model: sensor names (one known, one unknown), location
\* strings (all locations, one location in upper case, an unknown location),
\* the weeks given on the command line, what the table answers, what an
\* implementation returns.
SensorNames == {"isch", "xyz"}
LocStrings == {"all", "AK", "zz"}
SensorPairs == {<<n, l>> : n \in SensorNames, l \in LocStrings}
SensorLists == UNION {[1..n -> SensorPairs] : n \in 0..MaxSensors}
\* (first_week, last_week): no last week; a start at the bootstrap week or at
\* the stored week; a range across the end of 2010; a start after the end.
Windows == {<<None, None>>, <<Some(201052), None>>, <<None, Some(201041)>>,
            <<Some(201052), Some(201101)>>, <<Some(201052), Some(201041)>>}
RecentAnswers == {None, Some(201041), Some(201042)}
\* (self.valid, self.target)
Configs == {<<TRUE, "ov_datasetname2_per2">>, <<FALSE, "datasetname_rate">>}
Values == {17, 19}
Outcomes == {[kind |-> "raise", value |-> 0], [kind |-> "none", value |-> 0]}
              \cup {[kind |-> "value", value |-> v] : v \in Values}

\* str.lower() on the location strings of the model.
lower(loc) ==
  CASE loc = "AK" -> "ak"
    [] loc = "AL" -> "al"
    [] loc = "ALL" -> "all"
    [] OTHER -> loc

InSeq(x, s) == \E i \in 1..Len(s) : s[i] = x

\* get_location_list: the list of locations, or UnknownLocationException.
get_location_list(loc) ==
  IF lower(loc) = "all" THEN [ok |-> TRUE, list |-> SENSOR_LOCATIONS]
  ELSE IF InSeq(lower(loc), SENSOR_LOCATIONS) THEN [ok |-> TRUE, list |-> <<lower(loc)>>]
  ELSE [ok |-> FALSE, list |-> <<>>]

\* A variant of StartWeek that starts after the stored week instead of at it.
StartWeek_AfterStored(first, recent) ==
  IF first # None THEN first[1]
  ELSE IF recent # None THEN add_epiweeks(recent[1], 1)
  ELSE BootstrapWeek

\* update, "timing": ew1 from first_week, else the most recent stored week,
\* else 2010w40.  recent is what get_most_recent_epiweek answered.
StartWeek(first, recent) ==
  IF first # None THEN first[1]
  ELSE IF recent # None THEN recent[1]
  ELSE BootstrapWeek

\* update: the weeks of "for test_week in flu.range_epiweeks(ew1, last_week, inclusive=True)".
WeeksToProcess(ew1, last) == range_epiweeks(ew1, last)

\* update_single: train_week = flu.add_epiweeks(test_week, -1).
TrainWeek(test_week) == add_epiweeks(test_week, -1)

\* update_single: the arguments of impl(location, train_week, self.valid, self.target).
ImplArgs(loc, train_week, v, t) ==
  [location |-> loc, epiweek |-> train_week, valid |-> v, target |-> t]

\* update_single: "value" after the try/except.  A raise gives None; a returned
\* None makes the '%.3f' of the print raise inside the try, which gives None too.
CaughtValue(outcome) ==
  IF outcome.kind = "value" THEN Some(outcome.value) ELSE None

\* A variant of InsertArgs that stores the value under the training week.
InsertArgs_TrainWeek(t, n, loc, test_week, train_week, value) ==
  [target |-> t, name |-> n, location |-> loc, epiweek |-> train_week, value |-> value]

\* update_single: the arguments of database.insert(self.target, name, location, test_week, value).
InsertArgs(t, n, loc, test_week, train_week, value) ==
  [target |-> t, name |-> n, location |-> loc, epiweek |-> test_week, value |-> value]

\* A variant of AfterCaught in which the exception leaves update().
AfterCaught_Propagates == "aborted"

\* update_single: where update() stands after the try/except caught an exception
\* of the implementation.
AfterCaught == "weeks"

\* A variant of LeaveWith that never releases the database.
LeaveWith_Leak(n) == n

\* "with self.database as database": __enter__ on the way in, __exit__ on every
\* way out of the block.
EnterWith(n) == n + 1
LeaveWith(n) == n + 1

InitUpdateVars ==
  /\ sensors \in SensorLists
  /\ \E w \in Windows : first_week = w[1] /\ last_week = w[2]
  /\ \E c \in Configs : valid = c[1] /\ target = c[2]
  /\ pc = "new"
  /\ idx = 0
  /\ locations = <<>>
  /\ location = ""
  /\ weeks = <<>>
  /\ starts = <<>>
  /\ schedule = <<>>
  /\ lastCall = None
  /\ firstFailedPair = 0
  /\ entered = 0
  /\ exited = 0
  /\ lastInsertCtx = None
  /\ error = ""

\* update(): the check of last_week, then entering the with block.
Update ==
  /\ pc = "new"
  /\ IF last_week = None
       THEN /\ pc' = "raised"
            /\ error' = "last_week must be provided"
            /\ UNCHANGED <<entered, idx>>
       ELSE /\ entered' = EnterWith(entered)
            /\ idx' = 1
            /\ pc' = "sensors"
            /\ UNCHANGED error
  /\ UNCHANGED <<sensors, first_week, last_week, valid, target, locations, location,
                 weeks, starts, schedule, lastCall, firstFailedPair, exited, lastInsertCtx>>
  /\ UNCHANGED restOfUpdate

\* "for (name, loc) in sensors": the next pair and its get_location_list, or
\* the end of the with block.
NextSensor ==
  /\ pc = "sensors"
  /\ IF idx > Len(sensors)
       THEN /\ exited' = LeaveWith(exited)
            /\ pc' = "done"
            /\ UNCHANGED <<locations, error>>
       ELSE LET r == get_location_list(sensors[idx][2])
            IN  IF r.ok
                  THEN /\ locations' = r.list
                       /\ pc' = "locations"
                       /\ UNCHANGED <<exited, error>>
                  ELSE /\ exited' = LeaveWith(exited)
                       /\ pc' = "aborted"
                       /\ error' = "UnknownLocationException"
                       /\ UNCHANGED locations
  /\ UNCHANGED <<sensors, first_week, last_week, valid, target, idx, location, weeks,
                 starts, schedule, lastCall, firstFailedPair, entered, lastInsertCtx>>
  /\ UNCHANGED restOfUpdate

\* "for location in get_location_list(loc)": the next location and its start
\* week, or the next sensor.
NextLocation ==
  /\ pc = "locations"
  /\ IF locations = <<>>
       THEN /\ idx' = idx + 1
            /\ pc' = "sensors"
            /\ UNCHANGED <<locations, location, weeks, starts>>
       ELSE \E recent \in RecentAnswers :
              LET asked == first_week = None
                  ew1 == StartWeek(first_week, IF asked THEN recent ELSE None)
              IN  /\ asked \/ recent = None
                  /\ location' = Head(locations)
                  /\ locations' = Tail(locations)
                  /\ weeks' = WeeksToProcess(ew1, last_week[1])
                  /\ starts' = Append(starts, [name |-> sensors[idx][1],
                                               location |-> Head(locations),
                                               asked |-> asked,
                                               recent |-> recent,
                                               ew1 |-> ew1])
                  /\ pc' = "weeks"
                  /\ UNCHANGED idx
  /\ UNCHANGED <<sensors, first_week, last_week, valid, target, schedule, lastCall,
                 firstFailedPair, entered, exited, lastInsertCtx, error>>
  /\ UNCHANGED restOfUpdate

\* update_single(database, test_week, name, location) for the next week.
UpdateSingle ==
  /\ pc = "weeks"
  /\ weeks # <<>>
  /\ LET test_week == Head(weeks)
         name == sensors[idx][1]
         train_week == TrainWeek(test_week)
         call == [pair |-> Len(starts), name |-> name, location |-> location,
                  test_week |-> test_week]
     IN  /\ schedule' = Append(schedule, call)
         /\ weeks' = Tail(weeks)
         /\ IF name \notin Implementations
              THEN \* impl = self.implementations[name] raises KeyError
                   /\ exited' = LeaveWith(exited)
                   /\ pc' = "aborted"
                   /\ error' = "KeyError"
                   /\ UNCHANGED <<lastCall, firstFailedPair, lastInsertCtx>>
              ELSE \E outcome \in Outcomes :
                     LET value == CaughtValue(outcome)
                     IN  /\ lastCall' = Some([call |-> call,
                                              args |-> ImplArgs(location, train_week, valid, target),
                                              outcome |-> outcome,
                                              inserted |->
                                                IF value # None
                                                  THEN Some(InsertArgs(target, name, location,
                                                                       test_week, train_week, value[1]))
                                                  ELSE None])
                         /\ lastInsertCtx' = IF value # None
                                               THEN Some(<<entered, exited>>)
                                               ELSE lastInsertCtx
                         /\ firstFailedPair' = IF firstFailedPair = 0 /\ outcome.kind = "raise"
                                                 THEN Len(starts) ELSE firstFailedPair
                         /\ pc' = IF outcome.kind = "raise" THEN AfterCaught ELSE "weeks"
                         /\ UNCHANGED <<exited, error>>
  /\ UNCHANGED <<sensors, first_week, last_week, valid, target, idx, locations, location,
                 starts, entered>>
  /\ UNCHANGED restOfUpdate

\* The end of "for test_week in ...".
EndWeeks ==
  /\ pc = "weeks"
  /\ weeks = <<>>
  /\ pc' = "locations"
  /\ UNCHANGED <<sensors, first_week, last_week, valid, target, idx, locations, location,
                 weeks, starts, schedule, lastCall, firstFailedPair, entered, exited,
                 lastInsertCtx, error>>
  /\ UNCHANGED restOfUpdate

NextUpdate == Update \/ NextSensor \/ NextLocation \/ UpdateSingle \/ EndWeeks


\* Part II at rest (its state before any call).
IdleStatespaceVars ==
  /\ ss_pc = "idle"
  /\ input_locations = <<>>
  /\ data_source = ""
  /\ season = None
  /\ exclude_locations = <<>>
  /\ all_locations = <<>>
  /\ atoms = <<>>
  /\ H0 = None
  /\ W0 = None
  /\ rowsBuilt = 0
  /\ reducerCalls = <<>>
  /\ reducerAnswer = None
  /\ result = None
  /\ ss_error = None
  /\ memo = <<>>
  /\ call_key = None
  /\ hit = FALSE
  /\ callLog = <<>>
  /\ cursor = 0
  /\ repeats = 0

\* Part III at rest: no ISCH instance.
IdleIschVars ==
  /\ data = None
  /\ model = None
  /\ training_week = None
  /\ isch_last = None

\* Part IV at rest: fit_loch_ness is not called.
IdleFitVars ==
  /\ fit_call = None
  /\ fit_result = None
  /\ kernel_dw = None
  /\ kernel_weight = None

\* Part V at rest: compute_nowcast is not called.
IdleNowcastVars ==
  /\ nc_call = None
  /\ nowcast = None

\* Part VI at rest: the table is empty and main has not run.
IdleTargetVars ==
  /\ table = <<>>
  /\ latest = <<>>
  /\ runs = 0
  /\ record_last = None

\* Part VII at rest: a new DatasetnameDataSource (self.cache = {}).
IdleSourceVars ==
  /\ source_cache = <<>>
  /\ sensor_memo = <<>>
  /\ source_last = None

\* Parts V to VII at rest.
IdleLaterVars == IdleNowcastVars /\ IdleTargetVars /\ IdleSourceVars

InitUpdate ==
  InitUpdateVars /\ IdleStatespaceVars /\ IdleIschVars /\ IdleFitVars /\ IdleLaterVars

SpecUpdate == InitUpdate /\ [][NextUpdate]_vars


(***************************************************************************)
(* Properties of SensorUpdate, checked under SpecUpdate.                   *)
(***************************************************************************)

\* ew is a week of the calendar.
IsEpiweek(ew) == ew % 100 >= 1 /\ ew % 100 <= get_num_weeks(ew \div 100)

\* The weeks of the calendar from a to b inclusive, as a set.
WeeksBetween(a, b) == {w \in a..b : IsEpiweek(w)}

\* The (name, location) pairs update() visits when nothing aborts it.
RECURSIVE AllPairs(_)
AllPairs(ss) ==
  IF ss = <<>> THEN <<>>
  ELSE LET locs == get_location_list(Head(ss)[2]).list
       IN  [i \in 1..Len(locs) |-> <<Head(ss)[1], locs[i]>>] \o AllPairs(Tail(ss))

\* The update_single invocations of pair k (its ordinal in starts), in order.
CallsOfPair(k) == SelectSeq(schedule, LAMBDA c : c.pair = k)

\* The pairs whose week loop has ended or, for the last one started, is where
\* update() stands.
PairComplete(k) ==
  \/ k < Len(starts)
  \/ k = Len(starts) /\ (pc \in {"locations", "sensors", "done"}
                           \/ (pc = "weeks" /\ weeks = <<>>))

\* Pair k was given every week from its start week to last_week, each once,
\* in ascending order.
PairFullyProcessed(k) ==
  LET cs == CallsOfPair(k)
  IN  /\ {cs[i].test_week : i \in 1..Len(cs)} = WeeksBetween(starts[k].ew1, last_week[1])
      /\ \A i \in 1..Len(cs) - 1 : cs[i].test_week < cs[i + 1].test_week
      /\ \A i \in 1..Len(cs) : cs[i].name = starts[k].name /\ cs[i].location = starts[k].location

\* C1: an exception of the sensor implementation for a week inserts nothing for
\* that week and does not end the batch: database.insert is called for the week
\* exactly when the implementation returned a value that is not None; update()
\* is only ever aborted by an unknown location or an unknown sensor name, never
\* by the implementation; every pair whose week loop was left was given all its
\* weeks, and a run that ends normally has visited every (sensor, location)
\* pair, whatever the implementations raised.
C1_FailureIsSkipped ==
  /\ lastCall # None =>
       /\ lastCall[1].outcome.kind = "raise" => lastCall[1].inserted = None
       /\ lastCall[1].inserted # None <=> lastCall[1].outcome.kind = "value"
  /\ pc \in {"new", "raised", "sensors", "locations", "weeks", "done", "aborted"}
  /\ pc = "aborted" =>
       \/ error = "UnknownLocationException" /\ ~get_location_list(sensors[idx][2]).ok
       \/ error = "KeyError" /\ sensors[idx][1] \notin Implementations
  /\ \A k \in 1..Len(starts) :
       (pc # "aborted" /\ PairComplete(k)) \/ k < Len(starts) => PairFullyProcessed(k)
  /\ pc = "done" => [k \in 1..Len(starts) |-> <<starts[k].name, starts[k].location>>]
                      = AllPairs(sensors)

\* An implementation raised in the first pair, and the run went on to the end
\* and inserted a value for a later pair.
C1_Witness ==
  /\ pc = "done"
  /\ firstFailedPair = 1
  /\ lastCall # None
  /\ lastCall[1].call.pair = 2
  /\ lastCall[1].inserted # None

\* C2: the start week of every pair is first_week when it is given, else what
\* get_most_recent_epiweek answered when that is not None, else 201040 (and the
\* table is asked exactly when first_week is None); the weeks then processed
\* for the pair are exactly the weeks from the start week to last_week
\* inclusive, each once, in ascending order: none when the start week is after
\* last_week.
C2_StartWeekAndRange ==
  \A k \in 1..Len(starts) :
    LET e == starts[k]
    IN  /\ e.asked <=> first_week = None
        /\ first_week # None => e.ew1 = first_week[1]
        /\ first_week = None /\ e.recent # None => e.ew1 = e.recent[1]
        /\ first_week = None /\ e.recent = None => e.ew1 = 201040
        /\ e.ew1 > last_week[1] => CallsOfPair(k) = <<>>
        /\ (pc # "aborted" /\ PairComplete(k)) \/ k < Len(starts) => PairFullyProcessed(k)
        /\ \A i \in 1..Len(CallsOfPair(k)) :
             /\ CallsOfPair(k)[i].test_week >= e.ew1
             /\ CallsOfPair(k)[i].test_week <= last_week[1]
             /\ i > 1 => /\ CallsOfPair(k)[i - 1].test_week < CallsOfPair(k)[i].test_week
                         /\ WeeksBetween(CallsOfPair(k)[i - 1].test_week + 1,
                                         CallsOfPair(k)[i].test_week - 1) = {}
             /\ i = 1 => CallsOfPair(k)[i].test_week = e.ew1

\* A pair started at the stored week (recomputing it), one bootstrapped at
\* 201040 and run over two weeks, in a run that ended normally.
C2_Witness ==
  /\ pc = "done"
  /\ Len(starts) = 2
  /\ starts[1].recent = Some(201041) /\ starts[1].ew1 = 201041
  /\ Len(CallsOfPair(1)) = 1
  /\ starts[2].recent = None /\ starts[2].ew1 = 201040
  /\ last_week = Some(201041)
  /\ Len(CallsOfPair(2)) = 2

\* C3: every update_single invocation calls the implementation with the week
\* just before test_week as its epiweek, with the location of the loop and with
\* self.valid and self.target as they are, and a value it returns is inserted
\* under (self.target, name, location, test_week) with that value.
C3_TrainWeekAndInsertKey ==
  lastCall # None =>
    LET c == lastCall[1]
    IN  /\ IsEpiweek(c.args.epiweek)
        /\ c.args.epiweek < c.call.test_week
        /\ WeeksBetween(c.args.epiweek + 1, c.call.test_week - 1) = {}
        /\ c.args.location = c.call.location
        /\ c.args.valid = valid
        /\ c.args.target = target
        /\ c.inserted # None =>
             c.inserted[1] = [target |-> target, name |-> c.call.name,
                              location |-> c.call.location,
                              epiweek |-> c.call.test_week,
                              value |-> c.outcome.value]

\* The first week of 2011 was processed, trained on the last week of 2010, and
\* its value inserted.
C3_Witness ==
  /\ lastCall # None
  /\ lastCall[1].call.test_week = 201101
  /\ lastCall[1].args.epiweek = 201052
  /\ lastCall[1].inserted # None

\* C4: with last_week given, the database context is entered once, before
\* anything else, and exited once on every way out of update(): the normal end
\* and the aborts by an unknown location or an unknown sensor name; every
\* insert happens inside (entered, not yet exited).  With last_week None,
\* update() raises without entering the context and inserts nothing.
C4_ContextEnteredAndExitedOnce ==
  /\ pc = "new" => entered = 0 /\ exited = 0
  /\ pc \in {"sensors", "locations", "weeks"} => entered = 1 /\ exited = 0
  /\ pc \in {"done", "aborted"} => entered = 1 /\ exited = 1
  /\ pc = "raised" => last_week = None /\ entered = 0 /\ exited = 0
  /\ last_week = None => pc \in {"new", "raised"} /\ lastInsertCtx = None
  /\ last_week # None => pc # "raised"
  /\ lastInsertCtx # None => lastInsertCtx[1] = <<1, 0>>

\* A batch that inserted a value and was then aborted by an unknown location,
\* with the context exited.
C4_Witness ==
  /\ pc = "aborted"
  /\ error = "UnknownLocationException"
  /\ lastInsertCtx # None
  /\ entered = 1
  /\ exited = 1


(***************************************************************************)
(* Part II.  DatasetnameLocationMapper (fusion/datasetname_location_mapper)*)
(***************************************************************************)

\* Bounds of the model: the longest input_locations and exclude_locations.
MaxInputs == 2
MaxExclude == 2

\* The geography of the model, a cut of delphi.utils.geo: the units a location
\* is made of (Locations.region_map).  New York is made of two reporting units.
region_map(loc) ==
  CASE loc = "nd" -> {"nd"}
    [] loc = "nj" -> {"nj"}
    [] loc = "pr" -> {"pr"}
    [] loc = "ny" -> {"jfk", "ny_minus_jfk"}
    [] loc = "hhs2" -> {"nj", "jfk", "ny_minus_jfk", "pr"}
    [] OTHER -> {}

\* delphi.utils.geo.populations.get_population(unit, season), in millions.  One
\* unit has no inhabitants on record in one season, and 'pr' has none before
\* 2013.
get_population(unit, yr) ==
  CASE unit = "nd" -> IF yr = 2014 THEN 0 ELSE 1
    [] unit = "nj" -> 9
    [] unit = "jfk" -> 8
    [] unit = "ny_minus_jfk" -> IF yr = 2014 THEN 12 ELSE 11
    [] unit = "pr" -> IF yr < 2013 THEN 0 ELSE IF yr = 2013 THEN 4 ELSE 3
    [] OTHER -> 0

\* get_population(unit): the most recent population.
get_population_latest(unit) ==
  CASE unit = "nd" -> 1
    [] unit = "nj" -> 9
    [] unit = "jfk" -> 9
    [] unit = "ny_minus_jfk" -> 11
    [] unit = "pr" -> 3
    [] OTHER -> 0

\* The data sources of the model, by name: one whose catalogue is its atoms
\* (as DatasetnameDataSource), one with a region in its catalogue and a
\* smaller atom universe.
DataSources == {"atoms_only", "with_region"}

ATOMIC_LOCATIONS(ds) ==
  IF ds = "atoms_only" THEN <<"nd", "nj", "ny", "pr">> ELSE <<"nd", "nj", "ny">>

ALL_LOCATIONS(ds) ==
  IF ds = "atoms_only" THEN <<"nd", "nj", "ny", "pr">> ELSE <<"hhs2", "nd", "nj", "ny">>

\* The arguments the model calls determine_statespace with.
LocationNames == {"hhs2", "nd", "nj", "ny", "pr"}
InputTuples == UNION {[1..n -> LocationNames] : n \in 0..MaxInputs}
Seasons == {None, Some(2012), Some(2014)}
\* Tuples of distinct locations, as get_missing_locations makes them.
ExcludeTuples ==
  {t \in UNION {[1..n -> LocationNames] : n \in 0..MaxExclude} :
     \A i, j \in 1..Len(t) : i # j => t[i] # t[j]}

Max(a, b) == IF a >= b THEN a ELSE b

RECURSIVE Gcd(_, _)
Gcd(a, b) == IF b = 0 THEN a ELSE Gcd(b, a % b)

\* A variant of Fraction that rounds to hundredths.
Fraction_Hundredths(n, d) == <<(n * 100) \div d, 100>>

\* fractions.Fraction(n, d): the fraction in lowest terms, <<numerator, denominator>>.
Fraction(n, d) == <<n \div Gcd(n, d), d \div Gcd(n, d)>>

RECURSIVE SumSeq(_)
SumSeq(s) == IF s = <<>> THEN 0 ELSE Head(s) + SumSeq(Tail(s))

\* A variant of the inner loop without the membership test: every atom counts
\* towards every location.
AtomPopulation_Everywhere(atom, loc, seas) ==
  LET remapped_atom_to_atoms == IF atom = "ny" THEN <<"ny_minus_jfk", "jfk">> ELSE <<atom>>
      pop(u) == IF seas # None /\ seas[1] # 0
                  THEN get_population(u, Max(seas[1], 2013))
                  ELSE get_population_latest(u)
  IN  SumSeq([i \in 1..Len(remapped_atom_to_atoms) |-> pop(remapped_atom_to_atoms[i])])

\* get_weight_row, inner loop: the population of one atom within a location.
\* 'ny' stands for its two units; the season, when given, is at least 2013.
AtomPopulation(atom, loc, seas) ==
  LET remapped_atom_to_atoms == IF atom = "ny" THEN <<"ny_minus_jfk", "jfk">> ELSE <<atom>>
      pop(u) == IF u \in region_map(loc)
                  THEN IF seas # None /\ seas[1] # 0
                         THEN get_population(u, Max(seas[1], 2013))
                         ELSE get_population_latest(u)
                  ELSE 0
  IN  SumSeq([i \in 1..Len(remapped_atom_to_atoms) |-> pop(remapped_atom_to_atoms[i])])

\* A variant of get_weight_row without the sanity check: a location without
\* population gets a row of zeros.
get_weight_row_Unchecked(loc, seas, as) ==
  LET atom_populations == [i \in 1..Len(as) |-> AtomPopulation(as[i], loc, seas)]
      total_population == SumSeq(atom_populations)
  IN  [ok |-> TRUE, location |-> loc,
       row |-> [i \in 1..Len(as) |->
                  IF total_population = 0 THEN <<0, 1>>
                  ELSE Fraction(atom_populations[i], total_population)]]

\* get_weight_row: the fractions of the location's population, or the
\* exception carrying the location when the total is zero.
get_weight_row(loc, seas, as) ==
  LET atom_populations == [i \in 1..Len(as) |-> AtomPopulation(as[i], loc, seas)]
      total_population == SumSeq(atom_populations)
  IN  IF total_population = 0
        THEN [ok |-> FALSE, location |-> loc, row |-> <<>>]
        ELSE [ok |-> TRUE, location |-> loc,
              row |-> [i \in 1..Len(as) |-> Fraction(atom_populations[i], total_population)]]

\* get_weight_matrix: the rows of the locations in order; the first row that
\* raises ends it.  built counts the rows made before that.
get_weight_matrix(locs, seas, as) ==
  LET rows == [i \in 1..Len(locs) |-> get_weight_row(locs[i], seas, as)]
      bad == {i \in 1..Len(locs) : ~rows[i].ok}
      first == CHOOSE i \in bad : \A j \in bad : i <= j
  IN  IF bad = {}
        THEN [ok |-> TRUE, location |-> "", built |-> Len(locs),
              matrix |-> [i \in 1..Len(locs) |-> rows[i].row]]
        ELSE [ok |-> FALSE, location |-> rows[first].location, built |-> first - 1,
              matrix |-> <<>>]

SetOf(s) == {s[i] : i \in 1..Len(s)}

\* A variant of the sanity check that raises only when every input is excluded.
SanityCheckRaises_AllInputs(inputs, excluded) ==
  inputs # <<>> /\ SetOf(inputs) \subseteq SetOf(excluded)

\* determine_statespace, "quick sanity check": whether it raises.
SanityCheckRaises(inputs, excluded) == SetOf(excluded) \cap SetOf(inputs) # {}

\* A variant of the filter that removes nothing.
FilterExcluded_Nothing(locs, excluded) == locs

\* determine_statespace: list(filter(atom_filter, locs)).
FilterExcluded(locs, excluded) == SelectSeq(locs, LAMBDA a : a \notin SetOf(excluded))

\* A variant of the fast-path test with the comparison the other way round.
CoversAtoms_Within(inputs, as) == SetOf(inputs) \subseteq SetOf(as)

\* determine_statespace: set(input_locations) >= set(atoms).
CoversAtoms(inputs, as) == SetOf(as) \subseteq SetOf(inputs)

\* A variant of the projection that returns the whole catalogue.
ProjectLocations_All(locs, rows) == locs

\* determine_statespace: [all_locations[i] for i in selected_rows], with the
\* indices of Python (from 0).
ProjectLocations(locs, rows) == [k \in 1..Len(rows) |-> locs[rows[k] + 1]]

\* float(Fraction): the nearest multiple of 2^-16, as a number of such units.
AsFloat(f) == (f[1] * 65536 + f[2] \div 2) \div f[2]

\* M.astype(np.float)
AsFloatMatrix(M) == [i \in 1..Len(M) |-> [j \in 1..Len(M[i]) |-> AsFloat(M[i][j])]]


\* The elements of a set of numbers in ascending order.
RECURSIVE Ascending(_)
Ascending(S) ==
  IF S = {} THEN <<>>
  ELSE LET m == CHOOSE x \in S : \A y \in S : x <= y
       IN  <<m>> \o Ascending(S \ {m})

Reverse(q) == [i \in 1..Len(q) |-> q[Len(q) + 1 - i]]

\* fusion.determine_statespace(H0, W0), the reducer of the fusion kernel, is
\* not part of this repository: what it answers is an input of the model.  It
\* answers (H, W, selected_rows) over the columns some input observes, where
\* selected_rows are indices (from 0) of rows of W0: at least every row equal to
\* a row of H0, at most the rows that only weigh observed columns, in either
\* order; W is made of the selected rows.
ReducerAnswers(h0, w0, ncols) ==
  LET observed == {j \in 1..ncols : \E i \in 1..Len(h0) : h0[i][j][1] # 0}
      cols == Ascending(observed)
      cut(row) == [k \in 1..Len(cols) |-> row[cols[k]]]
      least == {i \in 1..Len(w0) : \E r \in 1..Len(h0) : h0[r] = w0[i]}
      most == {i \in 1..Len(w0) : \A j \in 1..ncols : w0[i][j][1] # 0 => j \in observed}
      orders == UNION {{Ascending(S), Reverse(Ascending(S))} :
                         S \in {T \in SUBSET most : least \subseteq T}}
  IN  {[H |-> [i \in 1..Len(h0) |-> cut(h0[i])],
        W |-> [k \in 1..Len(o) |-> cut(w0[o[k]])],
        selected_rows |-> [k \in 1..Len(o) |-> o[k] - 1]] : o \in orders}

\* A call of determine_statespace: the arguments and the sanity check, then the
\* two filters.
Enter(inputs, ds, seas, excl) ==
  /\ input_locations' = inputs
  /\ data_source' = ds
  /\ season' = seas
  /\ exclude_locations' = excl
  /\ IF SanityCheckRaises(inputs, excl)
       THEN /\ ss_pc' = "raised"
            /\ ss_error' = Some([kind |-> "input contains excluded locations",
                                 location |-> ""])
            /\ UNCHANGED <<all_locations, atoms>>
       ELSE /\ all_locations' = FilterExcluded(ALL_LOCATIONS(ds), excl)
            /\ atoms' = FilterExcluded(ATOMIC_LOCATIONS(ds), excl)
            /\ ss_pc' = "matrices"
            /\ UNCHANGED ss_error
  /\ UNCHANGED <<H0, W0, rowsBuilt, reducerCalls, reducerAnswer, result>>

\* A call of the function itself, with any arguments.
Call ==
  /\ ss_pc = "idle"
  /\ \E inputs \in InputTuples, ds \in DataSources, seas \in Seasons, excl \in ExcludeTuples :
       Enter(inputs, ds, seas, excl)
  /\ UNCHANGED restOfStatespace

\* H0 = get_matrix(input_locations); W0 = get_matrix(all_locations).
BuildMatrices ==
  /\ ss_pc = "matrices"
  /\ LET h == get_weight_matrix(input_locations, season, atoms)
         w == get_weight_matrix(all_locations, season, atoms)
     IN  IF ~h.ok
           THEN /\ ss_pc' = "raised"
                /\ ss_error' = Some([kind |-> "location has no constituent atoms",
                                     location |-> h.location])
                /\ rowsBuilt' = h.built
                /\ UNCHANGED <<H0, W0>>
           ELSE IF ~w.ok
             THEN /\ ss_pc' = "raised"
                  /\ ss_error' = Some([kind |-> "location has no constituent atoms",
                                       location |-> w.location])
                  /\ rowsBuilt' = h.built + w.built
                  /\ H0' = Some(h.matrix)
                  /\ UNCHANGED W0
             ELSE /\ ss_pc' = "select"
                  /\ rowsBuilt' = h.built + w.built
                  /\ H0' = Some(h.matrix)
                  /\ W0' = Some(w.matrix)
                  /\ UNCHANGED ss_error
  /\ UNCHANGED <<input_locations, data_source, season, exclude_locations, all_locations,
                 atoms, reducerCalls, reducerAnswer, result>>
  /\ UNCHANGED restOfStatespace

\* The fast path or the reducer, then the conversion to floats and the return.
SelectStatespace ==
  /\ ss_pc = "select"
  /\ IF CoversAtoms(input_locations, atoms)
       THEN /\ result' = Some([H |-> AsFloatMatrix(H0[1]),
                               W |-> AsFloatMatrix(W0[1]),
                               output_locations |-> all_locations])
            /\ UNCHANGED <<reducerCalls, reducerAnswer>>
       ELSE \E answer \in ReducerAnswers(H0[1], W0[1], Len(atoms)) :
              /\ reducerCalls' = Append(reducerCalls, [H0 |-> H0[1], W0 |-> W0[1]])
              /\ reducerAnswer' = Some(answer)
              /\ result' = Some([H |-> AsFloatMatrix(answer.H),
                                 W |-> AsFloatMatrix(answer.W),
                                 output_locations |->
                                   ProjectLocations(all_locations, answer.selected_rows)])
  /\ ss_pc' = "returned"
  /\ UNCHANGED <<input_locations, data_source, season, exclude_locations, all_locations,
                 atoms, H0, W0, rowsBuilt, ss_error>>
  /\ UNCHANGED restOfStatespace

\* The call is over: its arguments and locals are gone.
Return ==
  /\ ss_pc' = "idle"
  /\ input_locations' = <<>>
  /\ data_source' = ""
  /\ season' = None
  /\ exclude_locations' = <<>>
  /\ all_locations' = <<>>
  /\ atoms' = <<>>
  /\ H0' = None
  /\ W0' = None
  /\ rowsBuilt' = 0
  /\ reducerCalls' = <<>>
  /\ reducerAnswer' = None
  /\ result' = None
  /\ ss_error' = None

\* The caller has the result or the exception; the next call can start.
Finish ==
  /\ ss_pc \in {"returned", "raised"}
  /\ Return
  /\ UNCHANGED restOfStatespace

NextStatespace == Call \/ BuildMatrices \/ SelectStatespace \/ Finish

\* Part I at rest: update() is never called.
IdleUpdateVars ==
  /\ sensors = <<>>
  /\ first_week = None
  /\ last_week = None
  /\ valid = FALSE
  /\ target = ""
  /\ pc = "new"
  /\ idx = 0
  /\ locations = <<>>
  /\ location = ""
  /\ weeks = <<>>
  /\ starts = <<>>
  /\ schedule = <<>>
  /\ lastCall = None
  /\ firstFailedPair = 0
  /\ entered = 0
  /\ exited = 0
  /\ lastInsertCtx = None
  /\ error = ""

InitStatespace ==
  IdleUpdateVars /\ IdleStatespaceVars /\ IdleIschVars /\ IdleFitVars /\ IdleLaterVars

SpecStatespace == InitStatespace /\ [][NextStatespace]_vars


(***************************************************************************)
(* Properties of determine_statespace, checked under SpecStatespace.       *)
(***************************************************************************)

\* A call is under way or has ended.
InCall == ss_pc # "idle"

\* input_locations and exclude_locations share a location.
Overlap == \E i \in 1..Len(input_locations), j \in 1..Len(exclude_locations) :
             input_locations[i] = exclude_locations[j]

\* The catalogue and the atom universe of the call without the excluded
\* locations, from the arguments.
FilteredCatalogue ==
  SelectSeq(ALL_LOCATIONS(data_source),
            LAMBDA a : \A j \in 1..Len(exclude_locations) : a # exclude_locations[j])

FilteredAtoms ==
  SelectSeq(ATOMIC_LOCATIONS(data_source),
            LAMBDA a : \A j \in 1..Len(exclude_locations) : a # exclude_locations[j])

\* The units an atom stands for.
UnitsOf(atom) == IF atom = "ny" THEN {"ny_minus_jfk", "jfk"} ELSE {atom}

\* The population the call reads for a unit.
PopulationRead(u) ==
  IF season = None THEN get_population_latest(u)
  ELSE get_population(u, IF season[1] < 2013 THEN 2013 ELSE season[1])

\* Location loc has no population over the filtered atoms: every unit of it
\* that a filtered atom stands for has population zero.
ZeroTotal(loc) ==
  \A i \in 1..Len(FilteredAtoms) :
    \A u \in UnitsOf(FilteredAtoms[i]) \cap region_map(loc) : PopulationRead(u) = 0

\* The rows the call builds, in the order it builds them.
RowLocations == input_locations \o FilteredCatalogue

ZeroRows == {i \in 1..Len(RowLocations) : ZeroTotal(RowLocations[i])}

\* C5: a call whose input_locations and exclude_locations share a location
\* raises "input contains excluded locations" before any weight row is built
\* and before the reducer is called, and returns nothing; a call whose two
\* tuples are disjoint passes this check (it never raises that error).
C5_OverlapRaisesFirst ==
  InCall =>
    /\ Overlap =>
         /\ ss_pc = "raised"
         /\ ss_error = Some([kind |-> "input contains excluded locations", location |-> ""])
         /\ rowsBuilt = 0 /\ H0 = None /\ W0 = None
         /\ reducerCalls = <<>>
         /\ result = None
    /\ ~Overlap =>
         /\ ss_pc \in {"matrices", "select", "returned", "raised"}
         /\ ss_error # None => ss_error[1].kind # "input contains excluded locations"

\* A call with one of its two inputs excluded has raised.
C5_Witness ==
  /\ ss_pc = "raised"
  /\ input_locations = <<"nd", "nj">>
  /\ exclude_locations = <<"nj", "pr">>

\* C6: when a location among input_locations or the filtered catalogue has no
\* population over the filtered atoms, the call does not get past the weight
\* matrices: it raises, returns no matrix and never calls the reducer; when
\* the sanity check was passed, the error is "location has no constituent
\* atoms" and carries the first such location in the order of the rows
\* (input_locations, then the catalogue).  A call with no such location does
\* not raise this error.
C6_EmptyLocationRaises ==
  InCall =>
    /\ ZeroRows # {} =>
         /\ ss_pc \in {"matrices", "raised"}
         /\ result = None
         /\ W0 = None
         /\ reducerCalls = <<>>
         /\ ss_pc = "raised" /\ ~Overlap =>
              LET first == CHOOSE i \in ZeroRows : \A j \in ZeroRows : i <= j
              IN  /\ ss_error = Some([kind |-> "location has no constituent atoms",
                                      location |-> RowLocations[first]])
                  /\ rowsBuilt = first - 1
    /\ ZeroRows = {} /\ ss_error # None =>
         ss_error[1].kind # "location has no constituent atoms"

\* The rows of the inputs were built, then a region of the catalogue whose
\* atoms are all excluded made the call raise.
C6_Witness ==
  /\ ss_pc = "raised"
  /\ data_source = "with_region"
  /\ input_locations = <<"nd">>
  /\ exclude_locations = <<"nj", "ny">>
  /\ H0 # None
  /\ ss_error = Some([kind |-> "location has no constituent atoms", location |-> "hhs2"])

\* The sum of the fractions of a row, as numerator and denominator over the
\* product of the denominators.
RECURSIVE RowSum(_)
RowSum(row) ==
  IF row = <<>> THEN <<0, 1>>
  ELSE LET rest == RowSum(Tail(row))
       IN  <<Head(row)[1] * rest[2] + rest[1] * Head(row)[2], Head(row)[2] * rest[2]>>

\* A row of weights of location loc over the filtered atoms.
GoodRow(row, loc) ==
  /\ Len(row) = Len(FilteredAtoms)
  /\ \A i \in 1..Len(row) :
       /\ row[i][1] >= 0 /\ row[i][2] > 0
       /\ \A g \in 2..row[i][2] : ~(row[i][1] % g = 0 /\ row[i][2] % g = 0)
       /\ UnitsOf(FilteredAtoms[i]) \cap region_map(loc) = {} => row[i][1] = 0
  /\ RowSum(row)[1] = RowSum(row)[2]

\* C7: every row get_weight_row returned (the rows of H0, for the input
\* locations, and of W0, for the filtered catalogue) has one entry per atom in
\* the order of the atoms, every entry a fraction in lowest terms that is not
\* negative, the entries summing to exactly 1, and the entry of an atom zero
\* when none of its units ('ny' standing for 'ny_minus_jfk' and 'jfk') is a
\* constituent of the location.
C7_RowsAreExactWeights ==
  /\ H0 # None =>
       /\ Len(H0[1]) = Len(input_locations)
       /\ \A i \in 1..Len(H0[1]) : GoodRow(H0[1][i], input_locations[i])
  /\ W0 # None =>
       /\ Len(W0[1]) = Len(FilteredCatalogue)
       /\ \A i \in 1..Len(W0[1]) : GoodRow(W0[1][i], FilteredCatalogue[i])

\* The row of a region over three atoms: nothing for the atom outside it, and
\* New York, through its two units, weighs 20/29.
C7_Witness ==
  /\ W0 # None
  /\ data_source = "with_region"
  /\ season = None
  /\ exclude_locations = <<>>
  /\ W0[1][1] = <<<<0, 1>>, <<9, 29>>, <<20, 29>>>>

\* The set of input locations covers the filtered atom universe.
InputsCoverAtoms ==
  \A i \in 1..Len(FilteredAtoms) :
    \E k \in 1..Len(input_locations) : input_locations[k] = FilteredAtoms[i]

\* C8: in a call whose input locations cover every filtered atom, the reducer
\* is never called; the call returns unless the sanity check or a weight row
\* raises, and what it returns is H0 and W0 as they were built (one row per
\* input location, one per location of the filtered catalogue), converted to
\* floats entry by entry, with the whole filtered catalogue, in its order, as
\* output_locations.
C8_FastPath ==
  InCall /\ InputsCoverAtoms =>
    /\ reducerCalls = <<>>
    /\ reducerAnswer = None
    /\ ss_pc = "raised" => Overlap \/ ZeroRows # {}
    /\ ss_pc = "returned" =>
         /\ Len(H0[1]) = Len(input_locations)
         /\ Len(W0[1]) = Len(FilteredCatalogue)
         /\ result[1].H = [i \in 1..Len(H0[1]) |->
                             [j \in 1..Len(H0[1][i]) |-> AsFloat(H0[1][i][j])]]
         /\ result[1].W = [i \in 1..Len(W0[1]) |->
                             [j \in 1..Len(W0[1][i]) |-> AsFloat(W0[1][i][j])]]
         /\ result[1].output_locations = FilteredCatalogue

\* A call returned whose inputs are the one remaining atom and a region.
C8_Witness ==
  /\ ss_pc = "returned"
  /\ data_source = "with_region"
  /\ input_locations = <<"ny", "hhs2">>
  /\ exclude_locations = <<"nd", "nj">>
  /\ result[1].output_locations = <<"hhs2", "ny">>
  /\ result[1].H = <<<<65536>>, <<65536>>>>

\* C9: in a call whose input locations do not cover every filtered atom, the
\* reducer is called once, with (H0, W0), when the call returns, and not at
\* all when it raises; the call returns the reducer's H and W, converted to
\* floats, and as output_locations the entries of the filtered catalogue at
\* the selected indices (counted from 0), in the order of the indices, one for
\* each row of W.
C9_GeneralPath ==
  InCall /\ ~InputsCoverAtoms =>
    /\ ss_pc # "returned" => reducerCalls = <<>> /\ result = None
    /\ ss_pc = "returned" =>
         /\ reducerCalls = <<[H0 |-> H0[1], W0 |-> W0[1]]>>
         /\ reducerAnswer # None
         /\ result[1].H = AsFloatMatrix(reducerAnswer[1].H)
         /\ result[1].W = AsFloatMatrix(reducerAnswer[1].W)
         /\ Len(result[1].output_locations) = Len(reducerAnswer[1].selected_rows)
         /\ \A k \in 1..Len(reducerAnswer[1].selected_rows) :
              result[1].output_locations[k]
                = FilteredCatalogue[reducerAnswer[1].selected_rows[k] + 1]
         /\ Len(result[1].W) = Len(result[1].output_locations)

\* The same input twice: one call of the reducer, one output location.
C9_Witness ==
  /\ ss_pc = "returned"
  /\ data_source = "atoms_only"
  /\ input_locations = <<"nd", "nd">>
  /\ exclude_locations = <<>>
  /\ Len(reducerCalls) = 1
  /\ result[1].output_locations = <<"nd">>

\* C10: once a call is past the sanity check, no excluded location is in the
\* filtered catalogue or among the atoms, which are the columns of H0 and W0;
\* a call that returns, on either path, returns no excluded location in
\* output_locations, and returns every input location that the data source
\* has in its catalogue.
C10_ExcludedNeverReturned ==
  /\ ss_pc \in {"matrices", "select", "returned"} =>
       \A j \in 1..Len(exclude_locations) :
         /\ ~InSeq(exclude_locations[j], all_locations)
         /\ ~InSeq(exclude_locations[j], atoms)
  /\ ss_pc \in {"select", "returned"} =>
       /\ \A i \in 1..Len(H0[1]) : Len(H0[1][i]) = Len(atoms)
       /\ \A i \in 1..Len(W0[1]) : Len(W0[1][i]) = Len(atoms)
  /\ ss_pc = "returned" =>
       /\ \A j \in 1..Len(exclude_locations) :
            ~InSeq(exclude_locations[j], result[1].output_locations)
       /\ \A i \in 1..Len(input_locations) :
            InSeq(input_locations[i], ALL_LOCATIONS(data_source))
              => InSeq(input_locations[i], result[1].output_locations)

\* Two atoms as inputs and another atom excluded, through the reducer: the
\* outputs are the two inputs.
C10_Witness ==
  /\ ss_pc = "returned"
  /\ data_source = "atoms_only"
  /\ input_locations = <<"nd", "nj">>
  /\ exclude_locations = <<"pr">>
  /\ Len(reducerCalls) = 1
  /\ result[1].output_locations = <<"nd", "nj">>


(***************************************************************************)
(* Part II, the memo: determine_statespace behind                          *)
(* functools.lru_cache(maxsize=16).  The caller works through a list of    *)
(* argument tuples and now and then asks again for an earlier one.         *)
(***************************************************************************)

\* lru_cache(maxsize=16)
maxsize == 16

\* Bounds of the model: the length of the caller's list and the number of
\* times the caller asks again.
MaxNewKeys == 26
MaxRepeats == 1

MemoInputs == <<<<"nj">>, <<"ny">>>>
MemoSeasons == <<None, Some(2012), Some(2014)>>
MemoSources == <<"atoms_only", "with_region">>
MemoExcludes == <<<<>>, <<"pr">>, <<"nd">>>>

\* The cache key of a call: the arguments as they are passed (functools
\* _make_key).  passed is the number of positional arguments: a call that
\* leaves season and exclude_locations to their defaults has another key than
\* one that passes None and ().
MakeKey(inputs, ds, seas, excl, passed) ==
  [input_locations |-> inputs, data_source |-> ds, season |-> seas,
   exclude_locations |-> excl, passed |-> passed]

\* The i-th argument tuple of the caller's list, all four arguments passed.
KeyAt(i) ==
  MakeKey(MemoInputs[((i - 1) % 2) + 1],
          MemoSources[(((i - 1) \div 6) % 2) + 1],
          MemoSeasons[(((i - 1) \div 2) % 3) + 1],
          MemoExcludes[(((i - 1) \div 12) % 3) + 1],
          4)

\* The same call with the defaults left out, where the values are the defaults.
ShortForm(key) ==
  IF key.season = None /\ key.exclude_locations = <<>>
    THEN {[key EXCEPT !.passed = 2]}
    ELSE {}

\* The position of key in the cache (0: not held).
Position(cache, key) ==
  IF \E i \in 1..Len(cache) : cache[i].key = key
    THEN CHOOSE i \in 1..Len(cache) : cache[i].key = key
    ELSE 0

Without(cache, i) == [k \in 1..(Len(cache) - 1) |-> IF k < i THEN cache[k] ELSE cache[k + 1]]

\* A hit: the entry becomes the most recently used.
Touch_Still(cache, i) == cache

Touch(cache, i) == Append(Without(cache, i), cache[i])

\* A variant of Store that evicts the most recently used entry.
Store_EvictNewest(cache, key, value) ==
  IF Len(cache) < maxsize
    THEN Append(cache, [key |-> key, value |-> value])
    ELSE Append(SubSeq(cache, 1, Len(cache) - 1), [key |-> key, value |-> value])

\* A miss that returned: the result is stored as the most recently used
\* entry, and the least recently used entry leaves a full cache.
Store(cache, key, value) ==
  IF Len(cache) < maxsize
    THEN Append(cache, [key |-> key, value |-> value])
    ELSE Append(Tail(cache), [key |-> key, value |-> value])

\* The keys the caller may ask for again: the least and the most recently used
\* entries, their short forms, and the key of the last call that raised.
RepeatKeys ==
  LET held == IF memo = <<>> THEN {} ELSE {memo[1].key, memo[Len(memo)].key}
      raised == {callLog[i].key : i \in {j \in 1..Len(callLog) :
                    /\ callLog[j].outcome = "raised"
                    /\ \A k \in (j + 1)..Len(callLog) : callLog[k].outcome # "raised"}}
  IN  held \cup UNION {ShortForm(k) : k \in held} \cup raised

\* The wrapper is called: a key already held is answered from the cache,
\* without entering the function; any other key enters it.
Lookup(key) ==
  /\ call_key' = Some(key)
  /\ IF Position(memo, key) # 0
       THEN /\ hit' = TRUE
            /\ result' = Some(memo[Position(memo, key)].value)
            /\ memo' = Touch(memo, Position(memo, key))
            /\ ss_pc' = "returned"
            /\ UNCHANGED <<input_locations, data_source, season, exclude_locations,
                           all_locations, atoms, H0, W0, rowsBuilt, reducerCalls,
                           reducerAnswer, ss_error>>
       ELSE /\ hit' = FALSE
            /\ Enter(key.input_locations, key.data_source, key.season,
                     key.exclude_locations)
            /\ UNCHANGED memo

\* The caller asks for the next key of its list.
MemoCallNext ==
  /\ ss_pc = "idle"
  /\ cursor < MaxNewKeys
  /\ cursor' = cursor + 1
  /\ Lookup(KeyAt(cursor + 1))
  /\ UNCHANGED <<repeats, callLog>>
  /\ UNCHANGED outsideStatespace

\* The caller asks again for an earlier key.
MemoCallAgain ==
  /\ ss_pc = "idle"
  /\ repeats < MaxRepeats
  /\ repeats' = repeats + 1
  /\ \E key \in RepeatKeys : Lookup(key)
  /\ UNCHANGED <<cursor, callLog>>
  /\ UNCHANGED outsideStatespace

\* The call ends: the wrapper stores what a miss returned, stores nothing
\* when the function raised, and the caller has the result or the exception.
MemoFinish ==
  /\ ss_pc \in {"returned", "raised"}
  /\ memo' = IF ss_pc = "returned" /\ ~hit
               THEN Store(memo, call_key[1], result[1])
               ELSE memo
  /\ callLog' = Append(callLog, [key |-> call_key[1], outcome |-> ss_pc, hit |-> hit,
                                 value |-> result, rowsBuilt |-> rowsBuilt,
                                 reducerCalls |-> Len(reducerCalls)])
  /\ call_key' = None
  /\ hit' = FALSE
  /\ ss_pc' = "idle"
  /\ input_locations' = <<>>
  /\ data_source' = ""
  /\ season' = None
  /\ exclude_locations' = <<>>
  /\ all_locations' = <<>>
  /\ atoms' = <<>>
  /\ H0' = None
  /\ W0' = None
  /\ rowsBuilt' = 0
  /\ reducerCalls' = <<>>
  /\ reducerAnswer' = None
  /\ result' = None
  /\ ss_error' = None
  /\ UNCHANGED <<cursor, repeats>>
  /\ UNCHANGED outsideStatespace

NextMemo == MemoCallNext \/ MemoCallAgain \/ BuildMatrices \/ SelectStatespace \/ MemoFinish

SpecMemo == InitStatespace /\ [][NextMemo]_vars

(***************************************************************************)
(* Properties of the memo, checked under SpecMemo.                         *)
(***************************************************************************)

\* The keys of the calls that returned, each once, in the order of their last
\* use.
RECURSIVE ByLastUse(_)
ByLastUse(log) ==
  IF log = <<>> THEN <<>>
  ELSE LET last == log[Len(log)]
           before == ByLastUse(SubSeq(log, 1, Len(log) - 1))
       IN  IF last.outcome = "returned"
             THEN Append(SelectSeq(before, LAMBDA k : k # last.key), last.key)
             ELSE before

\* The last n entries of a sequence.
LastOf(q, n) == IF Len(q) <= n THEN q ELSE SubSeq(q, Len(q) - n + 1, Len(q))

\* C11: over any sequence of calls the memo holds at most 16 entries, one per
\* key (the arguments as passed); between calls it holds exactly the 16 most
\* recently used keys of the calls that returned, in the order of their last
\* use, so that the entry evicted is the least recently used one; a call
\* answered from the memo returns the triple that the miss on that key
\* computed, without building a weight row or calling the reducer; a call
\* that raised is never answered from the memo: every later call on its key
\* enters the function and raises again.
C11_MemoIsLRU ==
  /\ Len(memo) <= maxsize
  /\ \A i, j \in 1..Len(memo) : memo[i].key = memo[j].key => i = j
  /\ ss_pc = "idle" =>
       [i \in 1..Len(memo) |-> memo[i].key] = LastOf(ByLastUse(callLog), maxsize)
  /\ \A j \in 1..Len(callLog) :
       /\ callLog[j].hit =>
            /\ callLog[j].outcome = "returned"
            /\ callLog[j].rowsBuilt = 0
            /\ callLog[j].reducerCalls = 0
            /\ \E i \in 1..(j - 1) :
                 /\ callLog[i].key = callLog[j].key
                 /\ ~callLog[i].hit
                 /\ callLog[i].outcome = "returned"
                 /\ callLog[i].value = callLog[j].value
                 /\ \A k \in (i + 1)..(j - 1) :
                      callLog[k].key = callLog[j].key => callLog[k].hit
       /\ callLog[j].outcome = "raised" =>
            /\ ~callLog[j].hit
            /\ callLog[j].value = None
            /\ \A k \in (j + 1)..Len(callLog) :
                 callLog[k].key = callLog[j].key =>
                   callLog[k].outcome = "raised" /\ ~callLog[k].hit

\* The memo is full, an early key has been evicted by the seventeenth key
\* that returned, and a call has been answered from the memo.
C11_Witness ==
  /\ ss_pc = "idle"
  /\ Len(memo) = maxsize
  /\ Len(ByLastUse(callLog)) > maxsize
  /\ \E j \in 1..Len(callLog) : callLog[j].hit
  /\ \A i \in 1..Len(memo) : memo[i].key # KeyAt(2)

\* A call that raised has been repeated and has raised again.
C11_WitnessRaisedAgain ==
  \E i, j \in 1..Len(callLog) :
    i < j /\ callLog[i].key = callLog[j].key /\ callLog[i].outcome = "raised"

(***************************************************************************)
(* Part III: ISCH, the intercept-sin-cos-holiday regression                 *)
(* (sensors/isch).  An instance holds the observations of one region, a    *)
(* fitted model and the week it was trained as of.                         *)
(***************************************************************************)

\* ISCH.__init__: Epidata.range(199301, 202330), the weeks that get an index.
FirstIndexedWeek == 199301
LastIndexedWeek == 202330

\* DatasetnameDataSource.LAST_DATA_EPIWEEK
LAST_DATA_EPIWEEK == 201752

\* The number of columns of X (np.zeros((1, 7))).
NumFeatures == 7

\* Index of week 1 of a year: the weeks from 199301 up to that year.
YearStart(year) ==
  52 * (year - 1993) + Cardinality({y \in {1997, 2003, 2008, 2014, 2020} : y < year})

\* "epiweek in self.ew2i": the weeks range_epiweeks(199301, 202330) runs over.
InEw2i(e) ==
  /\ FirstIndexedWeek <= e /\ e <= LastIndexedWeek
  /\ split_epiweek(e)[2] >= 1
  /\ split_epiweek(e)[2] <= get_num_weeks(split_epiweek(e)[1])

\* self.ew2i[e]: the position of e in that range, from 0.
ew2i(e) == YearStart(split_epiweek(e)[1]) + split_epiweek(e)[2] - 1

\* self.i2ew[i]
i2ew(i) ==
  LET year == CHOOSE y \in 1993..2023 : YearStart(y) <= i /\ i < YearStart(y + 1)
  IN  join_epiweek(year, i - YearStart(year) + 1)

\* The observations of a region, as the rows of the API give them: every week
\* from first to last (as indices) but, possibly, one.
HasData(d, i) == d.first <= i /\ i <= d.last /\ i # d.hole

\* self.valid[i]: the lags an observation is stored under.  Every row is
\* stored as 'stable' (lag = 'stable').
Lags(d, i) == IF HasData(d, i) THEN {"stable"} ELSE {}

\* The regions of the model: observed from 199301 or from 201601, up to the
\* last data week or less, with or without a missing week (-1: none).
DataSets ==
  {[first |-> ew2i(199301), last |-> ew2i(LAST_DATA_EPIWEEK), hole |-> -1],
   [first |-> ew2i(201601), last |-> ew2i(LAST_DATA_EPIWEEK), hole |-> -1],
   [first |-> ew2i(201601), last |-> ew2i(LAST_DATA_EPIWEEK), hole |-> ew2i(201610)],
   [first |-> ew2i(201601), last |-> ew2i(201730), hole |-> -1],
   [first |-> ew2i(201751), last |-> ew2i(LAST_DATA_EPIWEEK), hole |-> -1]}

\* The weeks train and predict are called with.
Epiweeks ==
  {199252, 201450, 201451, 201452, 201453, 201501, 201606, 201607, 201608,
   201724, 201725, 201750, 201751, 201752, 201801, 202331}

\* self.weeks: the indices with an observation, sorted; here the first four.
FirstWeeks(d) ==
  SelectSeq(<<d.first, d.first + 1, d.first + 2, d.first + 3>>, LAMBDA i : HasData(d, i))

\* train, "Y[r, 0] = self.data[i + 1]['stable']" for i in range(i1, i2 + 1):
\* whether a week of the window has no observation for the week after it.  The
\* observations run from d.first <= i1 to d.last but for d.hole, so that the
\* only weeks that can be without one are d.hole - 1 and the last of the window.
LabelMissing(d, i1, i2) ==
  \E i \in {d.hole - 1, i2} : i1 <= i /\ i <= i2 /\ "stable" \notin Lags(d, i + 1)

\* A variant of the window end that stops 4 weeks before the week.
WindowEnd_FourWeeks(e) ==
  IF ew2i(e) - 4 <= ew2i(LAST_DATA_EPIWEEK) - 1
    THEN ew2i(e) - 4
    ELSE ew2i(LAST_DATA_EPIWEEK) - 1

\* train: i2 = min(self.ew2i[epiweek] - 5, self.ew2i[LAST_DATA_EPIWEEK] - 1)
WindowEnd(e) ==
  IF ew2i(e) - 5 <= ew2i(LAST_DATA_EPIWEEK) - 1
    THEN ew2i(e) - 5
    ELSE ew2i(LAST_DATA_EPIWEEK) - 1

\* A variant of the minimum that asks for one instance more.
min_training_instances_OneMore == Max(10 * NumFeatures, 52) + 1

\* train: min_training_instances = max(10*X.shape[1], 52)
min_training_instances == Max(10 * NumFeatures, 52)

\* train: max_training_instances = 50*X.shape[1]
max_training_instances == 50 * NumFeatures

\* A variant of the holiday offset that looks one week further.
HolidayOffset_Next(holiday) == holiday + 1

\* _get_features: "for holiday in range(4)", the week looked at is
\* add_epiweeks(ew, holiday).
HolidayOffset(holiday) == holiday

\* _get_features(ew): intercept, four holiday indicators, and the angle whose
\* sine and cosine are the last two entries, as week over weeks of the year.
\* The argument valid is not used.
get_features(e) ==
  [intercept |-> 1,
   holidays |-> [k \in 1..4 |->
                   IF split_epiweek(add_epiweeks(e, HolidayOffset(k - 1)))[2] = 1
                     THEN 1 ELSE 0],
   angle |-> <<split_epiweek(e)[2], get_num_weeks(split_epiweek(e)[1])>>]

\* train(epiweek) on observations d: how it ends, and the model it fits (the
\* rows it is fitted on, as the first and last index of the feature weeks).
train(d, e) ==
  IF ~InEw2i(e)
    THEN [outcome |-> "raised", error |-> "not predicting during this period"]
  ELSE IF Len(FirstWeeks(d)) < 3
    THEN [outcome |-> "raised", error |-> "IndexError"]
  ELSE LET i1 == FirstWeeks(d)[3]
           i2 == WindowEnd(e)
           num_weeks == i2 - i1 + 1
       IN  IF i2 < i1
             THEN [outcome |-> "raised", error |-> "too fresh"]
           ELSE IF LabelMissing(d, i1, i2)
             THEN [outcome |-> "raised", error |-> "KeyError"]
           ELSE IF num_weeks < min_training_instances
             THEN [outcome |-> "raised", error |-> "too few training instances"]
           ELSE [outcome |-> "returned", error |-> "",
                 model |-> [first |-> Max(i1, i2 - max_training_instances + 1),
                            last |-> i2]]

\* A variant of the check of predict that lets a model of the future pass.
TrainedOnFuture_Never(tw, e) == FALSE

\* predict: self.training_week > epiweek
TrainedOnFuture(tw, e) == tw > e

\* A new instance for some region.
NewIsch ==
  /\ \E d \in DataSets : data' = Some(d)
  /\ model' = None
  /\ training_week' = None
  /\ isch_last' = None
  /\ UNCHANGED restOfIsch

\* train(epiweek)
Train ==
  /\ data # None
  /\ \E e \in Epiweeks :
       LET t == train(data[1], e)
           call == [op |-> "train", epiweek |-> e, train |-> TRUE, valid |-> FALSE,
                    outcome |-> t.outcome, error |-> t.error, features |-> None,
                    value |-> None, model_before |-> model,
                    training_week_before |-> training_week]
       IN  /\ isch_last' = Some(call)
           /\ IF t.outcome = "returned"
                THEN model' = Some(t.model) /\ training_week' = Some(e)
                ELSE UNCHANGED <<model, training_week>>
  /\ UNCHANGED data
  /\ UNCHANGED restOfIsch

\* predict(epiweek, train, valid)
Predict ==
  /\ data # None
  /\ \E e \in Epiweeks, tr \in BOOLEAN, vld \in BOOLEAN :
       LET t == train(data[1], e)
           trained == tr /\ t.outcome = "returned"
           model1 == IF trained THEN Some(t.model) ELSE model
           training_week1 == IF trained THEN Some(e) ELSE training_week
           ending ==
             IF tr /\ t.outcome = "raised" THEN [outcome |-> "raised", error |-> t.error]
             ELSE IF training_week1 = None
               THEN [outcome |-> "raised", error |-> "AttributeError"]
             ELSE IF TrainedOnFuture(training_week1[1], e)
               THEN [outcome |-> "raised", error |-> "trained on future data"]
             ELSE IF ~InEw2i(e)
               THEN [outcome |-> "raised", error |-> "KeyError"]
             ELSE [outcome |-> "returned", error |-> ""]
           returned == ending.outcome = "returned"
           call == [op |-> "predict", epiweek |-> e, train |-> tr, valid |-> vld,
                    outcome |-> ending.outcome, error |-> ending.error,
                    features |-> IF returned THEN Some(get_features(e)) ELSE None,
                    value |-> IF returned
                                THEN Some([X |-> get_features(e), beta |-> model1[1]])
                                ELSE None,
                    model_before |-> model, training_week_before |-> training_week]
       IN  /\ isch_last' = Some(call)
           /\ model' = model1
           /\ training_week' = training_week1
  /\ UNCHANGED data
  /\ UNCHANGED restOfIsch

NextIsch == NewIsch \/ Train \/ Predict

InitIsch ==
  IdleUpdateVars /\ IdleStatespaceVars /\ IdleIschVars /\ IdleFitVars /\ IdleLaterVars

SpecIsch == InitIsch /\ [][NextIsch]_vars

(***************************************************************************)
(* Properties of ISCH, checked under SpecIsch.                             *)
(***************************************************************************)

\* The last call trained: train itself, or predict with train=True.
Trained == isch_last # None /\ isch_last[1].train

\* The third week, as an index, that the instance has an observation for (-1
\* when there are fewer than three).
ThirdDataWeek ==
  LET d == data[1]
      thirds == {i \in d.first..(d.first + 3) :
                   HasData(d, i) /\ Cardinality({j \in d.first..i : HasData(d, j)}) = 3}
  IN  IF thirds = {} THEN -1 ELSE CHOOSE i \in thirds : TRUE

\* The last feature week of the window of a training as of the week of the
\* last call, by the calendar: 5 weeks before that week, and no later than the
\* week before the last data week.
LastFeatureWeek ==
  LET fiveBefore == add_epiweeks(isch_last[1].epiweek, -5)
      cap == add_epiweeks(LAST_DATA_EPIWEEK, -1)
  IN  IF fiveBefore <= cap THEN fiveBefore ELSE cap

\* The number of weeks from the third data week to the last feature week.
WindowSize == ew2i(LastFeatureWeek) - ThirdDataWeek + 1

\* The window of the last call is defined: the week has an index and the
\* instance has three weeks of observations.
WindowDefined ==
  Trained /\ InEw2i(isch_last[1].epiweek) /\ ThirdDataWeek # -1

\* Every week of the window of the last call has an observation for the week
\* after it.
LabelsPresent ==
  \A i \in ThirdDataWeek..ew2i(LastFeatureWeek) : HasData(data[1], i + 1)

C13_MinimumInstances ==
  WindowDefined /\ WindowSize >= 1 /\ LabelsPresent =>
    /\ WindowSize < 70 =>
         /\ isch_last[1].outcome = "raised"
         /\ isch_last[1].error = "too few training instances"
         /\ model = isch_last[1].model_before
         /\ training_week = isch_last[1].training_week_before
    /\ WindowSize >= 70 =>
         /\ isch_last[1].outcome = "returned"
         /\ model # None
         /\ training_week = Some(isch_last[1].epiweek)
         /\ model[1].last - model[1].first + 1 = IF WindowSize <= 350 THEN WindowSize ELSE 350

\* A training on exactly 70 weeks returned.
C13_Witness ==
  /\ WindowDefined
  /\ isch_last[1].op = "train"
  /\ WindowSize = 70
  /\ isch_last[1].outcome = "returned"
  /\ model = Some([first |-> ThirdDataWeek, last |-> ThirdDataWeek + 69])

\* C14: whenever predict returns a value for week e, the stored training week
\* is not after e; predict with train=False raises the trained-on-future-data
\* error when the stored training week is after e; and predict with
\* train=True that returns has retrained as of e.
C14_NeverTrainedOnFuture ==
  isch_last # None /\ isch_last[1].op = "predict" =>
    /\ isch_last[1].outcome = "returned" =>
         /\ training_week # None
         /\ training_week[1] <= isch_last[1].epiweek
         /\ model # None
         /\ isch_last[1].value[1].beta = model[1]
    /\ /\ ~isch_last[1].train
       /\ isch_last[1].training_week_before # None
       /\ isch_last[1].training_week_before[1] > isch_last[1].epiweek
       => /\ isch_last[1].outcome = "raised"
          /\ isch_last[1].error = "trained on future data"
    /\ isch_last[1].train /\ isch_last[1].outcome = "returned" =>
         /\ training_week = Some(isch_last[1].epiweek)
         /\ i2ew(model[1].last) = LastFeatureWeek

\* predict without training, for a week before the training week, raised.
C14_Witness ==
  /\ isch_last # None
  /\ isch_last[1].op = "predict"
  /\ ~isch_last[1].train
  /\ isch_last[1].epiweek = 201725
  /\ training_week = Some(201752)
  /\ isch_last[1].error = "trained on future data"

\* C15: predict with valid=True raises when the week it predicts from has no
\* unstable observation.
C15_ValidPredictNeedsUnstable ==
  /\ isch_last # None
  /\ isch_last[1].op = "predict"
  /\ isch_last[1].valid
  /\ InEw2i(isch_last[1].epiweek)
  /\ "unstable" \notin Lags(data[1], ew2i(isch_last[1].epiweek))
  => isch_last[1].outcome = "raised"

\* The week of the year of the week n weeks after week e, by the calendar: the
\* weeks of the year of e run out after get_num_weeks, and no n here reaches
\* beyond the following year.
WeekOfYearAfter(e, n) ==
  LET w == split_epiweek(e)[2]
      N == get_num_weeks(split_epiweek(e)[1])
  IN  IF w + n <= N THEN w + n ELSE w + n - N

\* C16, as amended: in the feature vector of week ew the intercept is 1 and
\* the k-th holiday indicator (k = 1..4) is 1 exactly when the week k - 1
\* weeks after ew (ew itself for k = 1) has week-of-year 1, and 0 otherwise.
C16_HolidayIndicators ==
  isch_last # None /\ isch_last[1].features # None =>
    LET X == isch_last[1].features[1]
    IN  /\ X.intercept = 1
        /\ Len(X.holidays) = 4
        /\ \A k \in 1..4 :
             X.holidays[k] = IF WeekOfYearAfter(isch_last[1].epiweek, k - 1) = 1
                               THEN 1 ELSE 0

\* The features of the week before the last week of a 53-week year: the third
\* indicator is set.
C16_Witness ==
  /\ isch_last # None
  /\ isch_last[1].features # None
  /\ isch_last[1].epiweek = 201452
  /\ isch_last[1].features[1].holidays = <<0, 0, 1, 0>>

\* C16, as stated: the k-th holiday indicator is 1 exactly when the k-th of
\* the next 4 weeks after ew has week-of-year 1.
C16_NextFourWeeks ==
  isch_last # None /\ isch_last[1].features # None =>
    \A k \in 1..4 :
      isch_last[1].features[1].holidays[k]
        = IF WeekOfYearAfter(isch_last[1].epiweek, k) = 1 THEN 1 ELSE 0

(***************************************************************************)
(* Part IV: SensorFitting.fit_loch_ness (sensors/sensor_update).  Weeks    *)
(* are handled as positions in the calendar (ew2i), so that               *)
(* add_epiweeks(w, n) is w + n and delta_epiweeks(a, b) is b - a.           *)
(***************************************************************************)

\* The configured sensors pass one field ('value') and a shift of 0 (ght), 4
\* (nsnd4) or 7 (nsnd7); a list of six fields makes 10 * len(fields) count.
FieldCounts == {1, 6}
Shifts == {0, 4, 7}
FitEpiweeks == {201520, 201752}

\* The weeks the fetched signal has a row for, relative to ew3: n weeks up to
\* ew3 + last, but the week hole weeks before the last one (0: none missing).
SignalRowSpecs ==
  [last : {0, -1, -4, -7}, n : {51, 52, 53, 59, 60, 110}, hole : {0, 10}]

\* The weeks the ground truth has a row for, relative to ew2: n weeks up to
\* ew2 - lag, but the week hole weeks before ew2 (0: none missing).
TruthRowSpecs == [lag : {0, 2}, n : {30, 200}, hole : {0, 20}]

\* rows = Epidata.check(fetch(weeks1)): the weeks of the rows.
SignalRows(ew3, spec) ==
  {w \in (ew3 + spec.last - spec.n + 1)..(ew3 + spec.last) :
     spec.hole = 0 \/ w # ew3 + spec.last - spec.hole}

\* groundTruth: the weeks of the rows of Epidata.datasetname_targets(weeks0).
TruthRows(ew2, spec) ==
  {w \in (ew2 - spec.lag - spec.n + 1)..(ew2 - spec.lag) :
     spec.hole = 0 \/ w # ew2 - spec.hole}

\* extract: the keys of signal, each row's week moved by the shift.
extract(rows, signal_to_truth_ew_shift) == {w + signal_to_truth_ew_shift : w \in rows}

\* A variant of the two checks that looks at the amount of history first.
SignalCheck_CountFirst(signal, ew3, min_rows) ==
  IF Cardinality(signal) < min_rows THEN "signal available less"
  ELSE IF ew3 \notin signal THEN "signal unavailable"
  ELSE ""

\* fit_loch_ness: "if ew3 not in signal: raise", then "if len(signal) <
\* min_rows: raise"; the error raised, or "" when both checks pass.
SignalCheck(signal, ew3, min_rows) ==
  IF ew3 \notin signal THEN "signal unavailable"
  ELSE IF Cardinality(signal) < min_rows THEN "signal available less"
  ELSE ""

\* A variant of get_training_set_datasetname that does not skip the week it is
\* to predict.
get_training_set_datasetname_NoSkip(signal, groundTruth, ew3, signal_to_truth_ew_shift) ==
  [epiweeks |-> {w + signal_to_truth_ew_shift : w \in
                   {v \in signal : v + signal_to_truth_ew_shift \in groundTruth}},
   pairs |-> {<<v, v + signal_to_truth_ew_shift>> : v \in
                {w \in signal : w + signal_to_truth_ew_shift \in groundTruth}},
   dropped_weeks |-> Cardinality({v \in signal :
                                    v + signal_to_truth_ew_shift \notin groundTruth})]

\* get_training_set_datasetname: the weeks (of ground truth) of the training
\* set and the number of dropped signal weeks.  Each key of signal, which
\* extract has moved by the shift already, is moved by the shift again; the
\* key that lands on ew3 is skipped; a key that lands on a week without
\* ground truth is dropped.
get_training_set_datasetname(signal, groundTruth, ew3, signal_to_truth_ew_shift) ==
  LET kept == {w \in signal : w + signal_to_truth_ew_shift # ew3}
  IN  [epiweeks |-> {w + signal_to_truth_ew_shift : w \in
                       {v \in kept : v + signal_to_truth_ew_shift \in groundTruth}},
       pairs |-> {<<v, v + signal_to_truth_ew_shift>> : v \in
                    {w \in kept : w + signal_to_truth_ew_shift \in groundTruth}},
       dropped_weeks |-> Cardinality({v \in kept :
                                        v + signal_to_truth_ew_shift \notin groundTruth})]

\* A variant of the test of get_model that asks for 26 instances only.
PeriodicBias_AnySpan(ne, span) == ne >= 26

\* get_model: ne >= 26 and flu.delta_epiweeks(epiweeks[0], epiweeks[-1]) >= 52
PeriodicBias(ne, span) == ne >= 26 /\ span >= 52

\* get_model: the number of rows of the fitted coefficient vector, one per
\* column of X after np.hstack.
CoefficientCount(nx2, ne, span) == IF PeriodicBias(ne, span) THEN nx2 + 3 ELSE nx2 + 1

\* apply_model: the length of the observation vector.
ObservationLength(beta_rows, values_len) ==
  IF beta_rows > values_len + 1 THEN values_len + 1 + 2 ELSE values_len + 1

\* The least and the greatest element of a set of weeks.
Least(S) == CHOOSE w \in S : \A v \in S : w <= v
Greatest(S) == CHOOSE w \in S : \A v \in S : w >= v

\* get_weight(ew1, ew2) of fit_loch_ness, the weight of a training week
\* dw = delta_epiweeks(ew1, ew2) weeks before the target.  Floats are numbers
\* of units of 2^-20.

\* Bound of the model: the greatest distance in weeks.
MaxDelta == 60

\* One, in units of 2^-20.
Scale == 1048576

\* get_weight: bw, the width of the seasonal bump in weeks.
bw == 4

\* The product of two floats.
Mul(a, b) == ((a \div 1024) * b) \div 1024 + ((a % 1024) * b) \div Scale

\* 2 ** -(1/2), 2 ** -(1/4), ..., 2 ** -(1/4096)
Pow2Table ==
  <<741455, 881744, 961548, 1004120, 1026107, 1037281, 1042913, 1045741, 1047157,
    1047866, 1048221, 1048399>>

\* 2 ** -(n/4096), bit by bit of the fraction, then halved once per unit.
RECURSIVE Pow2Frac(_, _)
Pow2Frac(f, j) ==
  IF j > 12 THEN Scale
  ELSE IF (f \div (2 ^ (12 - j))) % 2 = 1
    THEN Mul(Pow2Frac(f, j + 1), Pow2Table[j])
    ELSE Pow2Frac(f, j + 1)

Pow2Neg(n) ==
  IF n \div 4096 >= 31 THEN 0 ELSE Pow2Frac(n % 4096, 1) \div (2 ^ (n \div 4096))

\* min(dw % yr, yr - dw % yr) with yr = 52.2, in tenths of a week.
SeasonalDistance(dw) ==
  IF ((10 * dw) % 522) <= 522 - ((10 * dw) % 522)
    THEN (10 * dw) % 522
    ELSE 522 - ((10 * dw) % 522)

\* b = np.exp(-((min(dw % yr, yr - dw % yr) / bw) ** 2)), with exp(-x) as
\* 2 ** -(x * log2(e)) and 4096 * log2(e) / (10 * bw) ** 2 as 3.693.
Bump(dw) ==
  Pow2Neg((SeasonalDistance(dw) * SeasonalDistance(dw) * 3693 + 500) \div 1000)

\* A variant of the decay that does not decay.
Decay_None(dw) == Scale

\* c = 2 ** -(dw / hl1), hl1 = 52.2
Decay(dw) == Pow2Neg((10 * dw * 4096 + 261) \div 522)

\* d = 1 - 2 ** -(dw / hl2), hl2 = 1
Recency(dw) == Scale - (IF dw <= 20 THEN Scale \div (2 ^ dw) ELSE 0)

\* return (a + (1 - a) * b) * c * d, a = 0.05
get_weight(dw) ==
  Mul(Mul(52429 + Mul(Scale - 52429, Bump(dw)), Decay(dw)), Recency(dw))

\* get_model: the diagonal of weights, one per training week.
get_model_weights(ew2, epiweeks) == [w \in epiweeks |-> get_weight(ew2 - w)]

\* fit_loch_ness, from the fetched rows on: how it ends and what it computed.
fit_loch_ness(nfields, shift, ew3, rows, groundTruth) ==
  LET signal == extract(rows, shift)
      min_rows == Max(10 * nfields, 52)
      check == SignalCheck(signal, ew3, min_rows)
      set == get_training_set_datasetname(signal, groundTruth, ew3, shift)
      ne == Cardinality(set.epiweeks)
      none == [dropped_weeks |-> None, ne |-> None, first |-> None, last |-> None,
               beta_rows |-> None, obs_len |-> None, pairs |-> None, weights |-> None,
               predicted_from |-> None]
  IN  IF check # ""
        THEN [outcome |-> "raised", error |-> check] @@ none
      ELSE IF ne < min_rows - 1
        THEN [outcome |-> "raised", error |-> "targets available less",
              dropped_weeks |-> Some(set.dropped_weeks), ne |-> Some(ne),
              first |-> None, last |-> None, beta_rows |-> None, obs_len |-> None,
              pairs |-> Some(set.pairs), weights |-> None, predicted_from |-> None]
      ELSE LET beta_rows == CoefficientCount(nfields, ne,
                                             Greatest(set.epiweeks) - Least(set.epiweeks))
           IN  [outcome |-> "returned", error |-> "",
                dropped_weeks |-> Some(set.dropped_weeks), ne |-> Some(ne),
                first |-> Some(Least(set.epiweeks)), last |-> Some(Greatest(set.epiweeks)),
                beta_rows |-> Some(beta_rows),
                obs_len |-> Some(ObservationLength(beta_rows, nfields)),
                pairs |-> Some(set.pairs),
                weights |-> Some(get_model_weights(ew3, set.epiweeks)),
                predicted_from |-> Some(ew3)]

\* A call of fit_loch_ness for some sensor, week and fetched rows.
FitLochNess ==
  /\ fit_call = None
  /\ \E nfields \in FieldCounts, shift \in Shifts, e \in FitEpiweeks,
        sig \in SignalRowSpecs, truth \in TruthRowSpecs :
       LET ew2 == ew2i(e)
           ew3 == ew2i(add_epiweeks(e, 1))
       IN  /\ fit_call' = Some([fields |-> nfields, signal_to_truth_ew_shift |-> shift,
                                epiweek |-> e, signal_rows |-> sig, truth_rows |-> truth])
           /\ fit_result' = Some(fit_loch_ness(nfields, shift, ew3, SignalRows(ew3, sig),
                                               TruthRows(ew2, truth)))
  /\ UNCHANGED kernelVars
  /\ UNCHANGED restOfFit

\* The caller has the value or the exception.
FitReturn ==
  /\ fit_call # None
  /\ fit_call' = None
  /\ fit_result' = None
  /\ UNCHANGED kernelVars
  /\ UNCHANGED restOfFit

NextFit == FitLochNess \/ FitReturn

InitFit ==
  IdleUpdateVars /\ IdleStatespaceVars /\ IdleIschVars /\ IdleFitVars /\ IdleLaterVars

SpecFit == InitFit /\ [][NextFit]_vars

(***************************************************************************)
(* Properties of fit_loch_ness, checked under SpecFit.                     *)
(***************************************************************************)

\* The target week T of the call (the week after its epiweek), the weeks the
\* covariate has an observation for, and the weeks it stands for once
\* shifted.
TargetWeek == ew2i(fit_call[1].epiweek) + 1

CovariateRows == SignalRows(TargetWeek, fit_call[1].signal_rows)

CovariateWeeks == {w + fit_call[1].signal_to_truth_ew_shift : w \in CovariateRows}

\* The weeks with ground truth.
LabelWeeks == TruthRows(TargetWeek - 1, fit_call[1].truth_rows)

\* max(10 x covariate_count, 52)
MinimumRows == IF 10 * fit_call[1].fields > 52 THEN 10 * fit_call[1].fields ELSE 52

\* C17: a call for week e, with target week T = e + 1, raises the
\* signal-unavailable error when the covariate has no value for T, however
\* many observations it has; when it has one, the call raises the
\* insufficient-signal-history error exactly when the covariate has fewer
\* than max(10 x covariate_count, 52) observations, T's included; in both
\* cases nothing is fitted and no value is returned.
C17_SignalChecksInOrder ==
  fit_call # None =>
    /\ TargetWeek \notin CovariateWeeks =>
         fit_result[1].outcome = "raised" /\ fit_result[1].error = "signal unavailable"
    /\ TargetWeek \in CovariateWeeks =>
         (Cardinality(CovariateRows) < MinimumRows
            <=> fit_result[1].outcome = "raised"
                /\ fit_result[1].error = "signal available less")
    /\ fit_result[1].error \in {"signal unavailable", "signal available less"} =>
         /\ fit_result[1].outcome = "raised"
         /\ fit_result[1].ne = None
         /\ fit_result[1].beta_rows = None
         /\ fit_result[1].obs_len = None

\* A covariate with too few observations and none for the target week: the
\* call raised the signal-unavailable error.
C17_Witness ==
  /\ fit_call # None
  /\ TargetWeek \notin CovariateWeeks
  /\ Cardinality(CovariateRows) < MinimumRows
  /\ fit_result[1].error = "signal unavailable"

\* C18: covariate weeks without ground truth are dropped and counted; once
\* the signal checks are passed, the call raises the insufficient-label-history
\* error exactly when fewer than max(10 x covariate_count, 52) - 1 pairs
\* remain, and returns otherwise; and a covariate with exactly the minimum
\* number of observations, the target week's among them, whose other weeks
\* all have ground truth is fitted, whatever the shift.
C18_MinimumSeriesIsFitted ==
  fit_call # None /\ fit_result[1].ne # None =>
    /\ fit_result[1].dropped_weeks[1] + fit_result[1].ne[1] <= Cardinality(CovariateWeeks)
    /\ fit_result[1].ne[1] < MinimumRows - 1
         <=> fit_result[1].outcome = "raised"
             /\ fit_result[1].error = "targets available less"
    /\ /\ Cardinality(CovariateWeeks) = MinimumRows
       /\ TargetWeek \in CovariateWeeks
       /\ \A w \in CovariateWeeks \ {TargetWeek} : w \in LabelWeeks
       => fit_result[1].outcome = "returned"

\* C19: the coefficient vector of a fit with k covariates has k + 3 entries
\* exactly when the training set has at least 26 instances and its first and
\* last weeks are at least 52 weeks apart, and k + 1 entries otherwise; the
\* observation vector apply_model builds has as many entries as the
\* coefficient vector.
C19_CoefficientCount ==
  fit_call # None /\ fit_result[1].outcome = "returned" =>
    /\ fit_result[1].first[1] \in LabelWeeks
    /\ fit_result[1].last[1] \in LabelWeeks
    /\ IF fit_result[1].ne[1] >= 26 /\ fit_result[1].last[1] - fit_result[1].first[1] >= 52
         THEN fit_result[1].beta_rows = Some(fit_call[1].fields + 3)
         ELSE fit_result[1].beta_rows = Some(fit_call[1].fields + 1)
    /\ fit_result[1].obs_len = fit_result[1].beta_rows

\* A fit on 51 consecutive weeks: they are 50 weeks apart, and the model has
\* the covariate and the constant only.
C19_Witness ==
  /\ fit_call # None
  /\ fit_result[1].outcome = "returned"
  /\ fit_call[1].fields = 1
  /\ fit_result[1].ne = Some(51)
  /\ fit_result[1].last[1] - fit_result[1].first[1] = 50
  /\ fit_result[1].beta_rows = Some(2)

\* A fit on weeks a year or more apart has the periodic terms.
C19_WitnessPeriodic ==
  /\ fit_call # None
  /\ fit_result[1].outcome = "returned"
  /\ fit_call[1].fields = 6
  /\ fit_result[1].beta_rows = Some(9)
  /\ fit_result[1].obs_len = Some(9)

\* C24: with shift s, every training pair couples the covariate observed at
\* raw week r with the ground truth of week r + s, the offset of the
\* prediction, where the covariate observed at raw week T - s is applied to
\* the target week T: the shift is applied once between a covariate row and
\* its label.
C24_ShiftAppliedOnce ==
  fit_call # None /\ fit_result[1].pairs # None =>
    /\ \A pair \in fit_result[1].pairs[1] : \A r \in CovariateRows :
         r + fit_call[1].signal_to_truth_ew_shift = pair[1] =>
           pair[2] = r + fit_call[1].signal_to_truth_ew_shift
    /\ fit_result[1].predicted_from # None =>
         \A r \in CovariateRows :
           r + fit_call[1].signal_to_truth_ew_shift = fit_result[1].predicted_from[1] =>
             TargetWeek = r + fit_call[1].signal_to_truth_ew_shift

\* Whether a covariate week was skipped as the week to predict: 1 or 0.
SkippedWeeks ==
  IF \E k \in CovariateWeeks : k + fit_call[1].signal_to_truth_ew_shift = TargetWeek
    THEN 1 ELSE 0

\* C25: in a call for week e, with target week T = e + 1, every training
\* instance has a ground-truth week that has ground truth and is strictly
\* earlier than T; the weights of get_model are for exactly these weeks, each at
\* a distance of at least one week from T and none of them zero; and the
\* training pairs, the dropped weeks and the week skipped as the week to
\* predict (one, when the covariate has it) add up to the covariate weeks.
C25_OnlyEarlierWeeks ==
  fit_call # None /\ fit_result[1].pairs # None =>
    /\ \A pair \in fit_result[1].pairs[1] : pair[2] < TargetWeek /\ pair[2] \in LabelWeeks
    /\ fit_result[1].ne[1] = Cardinality(fit_result[1].pairs[1])
    /\ fit_result[1].weights # None =>
         /\ DOMAIN fit_result[1].weights[1] = {pair[2] : pair \in fit_result[1].pairs[1]}
         /\ \A w \in DOMAIN fit_result[1].weights[1] :
              TargetWeek - w >= 1 /\ fit_result[1].weights[1][w] > 0
    /\ fit_result[1].ne[1] + fit_result[1].dropped_weeks[1] + SkippedWeeks
         = Cardinality(CovariateWeeks)

\* A fit with a training week right before T, a week dropped for want of
\* ground truth and the target's own week skipped.
C25_Witness ==
  /\ fit_call # None
  /\ fit_result[1].outcome = "returned"
  /\ fit_result[1].dropped_weeks[1] >= 1
  /\ SkippedWeeks = 1
  /\ TargetWeek - 1 \in DOMAIN fit_result[1].weights[1]
  /\ fit_result[1].weights[1][TargetWeek - 1] > 0

(***************************************************************************)
(* Part IV, the kernel: get_weight of fit_loch_ness at two distances.       *)
(***************************************************************************)

\* Two training weeks at different distances from the target.
ChooseWeeks ==
  /\ kernel_dw = None
  /\ \E d1 \in 1..MaxDelta, d2 \in 1..MaxDelta :
       d1 < d2 /\ kernel_dw' = Some(<<d1, d2>>)
  /\ UNCHANGED kernel_weight
  /\ UNCHANGED fitVars
  /\ UNCHANGED restOfKernel

\* Their weights.
GetWeight ==
  /\ kernel_dw # None
  /\ kernel_weight = None
  /\ kernel_weight' = Some(<<get_weight(kernel_dw[1][1]), get_weight(kernel_dw[1][2])>>)
  /\ UNCHANGED kernel_dw
  /\ UNCHANGED fitVars
  /\ UNCHANGED restOfKernel

\* The next two weeks.
ForgetWeeks ==
  /\ kernel_weight # None
  /\ kernel_dw' = None
  /\ kernel_weight' = None
  /\ UNCHANGED fitVars
  /\ UNCHANGED restOfKernel

NextKernel == ChooseWeeks \/ GetWeight \/ ForgetWeeks

SpecKernel == InitFit /\ [][NextKernel]_vars

(***************************************************************************)
(* Properties of the kernel, checked under SpecKernel.                     *)
(***************************************************************************)

\* C20, as amended: from 2 weeks up to 41 weeks before the target, a greater
\* distance has a strictly smaller weight; from 41 weeks up to 52 weeks, where
\* the seasonal bump is, a greater distance has a strictly greater weight.
C20_DecreasingUpToTheBump ==
  kernel_weight # None =>
    /\ 2 <= kernel_dw[1][1] /\ kernel_dw[1][2] <= 41 =>
         kernel_weight[1][2] < kernel_weight[1][1]
    /\ 41 <= kernel_dw[1][1] /\ kernel_dw[1][2] <= 52 =>
         kernel_weight[1][2] > kernel_weight[1][1]

\* The weights of 40 and of 48 weeks: the farther week weighs more.
C20_Witness ==
  /\ kernel_weight # None
  /\ kernel_dw = Some(<<40, 48>>)
  /\ kernel_weight[1][2] > 6 * kernel_weight[1][1]

\* C20, as stated: beyond the radius of the seasonal bump (its width bw), a
\* greater distance has a strictly smaller weight.
C20_DecreasingBeyondRadius ==
  kernel_weight # None /\ kernel_dw[1][1] > bw =>
    kernel_weight[1][2] < kernel_weight[1][1]

(***************************************************************************)
(* Part V.  Nowcast.compute_nowcast(input_locations, DatasetnameDataSource,*)
(* DatasetnameLocationMapper, noise, reading, BlendDiagonal2, ...): the    *)
(* statespace of the inputs from determine_statespace, then the fusion of  *)
(* the readings.  The fusion itself is not among the sources; it is the    *)
(* weighted least squares blend of the design, over exact rationals.       *)
(***************************************************************************)

\* The noise levels and the readings of the model (tests/fusion/test_nowcast).
NoiseLevels == {11, 13}
Readings == {17, 19}

\* The arguments the model calls compute_nowcast with: two atoms of
\* DatasetnameDataSource, which may be the same one.
NowcastInputs == [1..2 -> SetOf(ATOMIC_LOCATIONS("atoms_only"))]
NowcastExcludes == {<<>>, <<"pr">>}

Abs(n) == IF n < 0 THEN -n ELSE n

\* The rational n/d in lowest terms with a positive denominator.
Rational(n, d) ==
  LET g == Gcd(Abs(n), Abs(d))
  IN  IF d < 0 THEN <<(-n) \div g, (-d) \div g>> ELSE <<n \div g, d \div g>>

RAdd(a, b) ==
  LET g == Gcd(a[2], b[2])
  IN  Rational(a[1] * (b[2] \div g) + b[1] * (a[2] \div g), (a[2] \div g) * b[2])

RMul(a, b) ==
  LET p == Rational(a[1], b[2])
      q == Rational(b[1], a[2])
  IN  <<p[1] * q[1], p[2] * q[2]>>

RNeg(a) == <<-a[1], a[2]>>
RDiv(a, b) == RMul(a, Rational(b[2], b[1]))

RECURSIVE RSum(_)
RSum(q) == IF q = <<>> THEN <<0, 1>> ELSE RAdd(Head(q), RSum(Tail(q)))

\* A float of the returned matrices (a number of units of 2^-16) as a rational.
FromFloat(u) == Rational(u, 65536)

\* BlendDiagonal2 on independent noise: the diagonal of the squared levels.
get_cov(noise) == [i \in 1..Len(noise) |-> <<noise[i] * noise[i], 1>>]

\* fusion.fuse(z, R, H): the state x and its covariance P,
\*   P = (H' R^-1 H)^-1,  x = P H' R^-1 z,
\* for a diagonal R, two readings and one or two columns of state.  ok is
\* false when H' R^-1 H is singular.
fuse(z, R, H) ==
  LET m == Len(H[1])
      h(i, j) == FromFloat(H[i][j])
      g == RSum([i \in 1..Len(H) |-> RDiv(RMul(h(i, 1), h(i, 1)), R[i])])
      det == RAdd(RMul(h(1, 1), h(2, 2)), RNeg(RMul(h(1, 2), h(2, 1))))
      inv == <<<<RDiv(h(2, 2), det), RDiv(RNeg(h(1, 2)), det)>>,
               <<RDiv(RNeg(h(2, 1)), det), RDiv(h(1, 1), det)>>>>
  IN  IF m = 1
        THEN IF g[1] = 0 THEN [ok |-> FALSE, x |-> <<>>, P |-> <<>>]
             ELSE [ok |-> TRUE,
                   x |-> <<RDiv(RSum([i \in 1..Len(H) |->
                                        RDiv(RMul(h(i, 1), <<z[i], 1>>), R[i])]), g)>>,
                   P |-> <<<<RDiv(<<1, 1>>, g)>>>>]
      ELSE IF m = 2 /\ Len(H) = 2
        THEN IF det[1] = 0 THEN [ok |-> FALSE, x |-> <<>>, P |-> <<>>]
             ELSE [ok |-> TRUE,
                   x |-> [j \in 1..2 |-> RSum([i \in 1..2 |-> RMul(inv[j][i], <<z[i], 1>>)])],
                   P |-> [j \in 1..2 |-> [l \in 1..2 |->
                            RSum([i \in 1..2 |-> RMul(RMul(inv[j][i], R[i]), inv[l][i])])]]]
      ELSE [ok |-> FALSE, x |-> <<>>, P |-> <<>>]

\* fusion.extract(x, P, W): the outputs y = W x and the diagonal of W P W'.
extract_outputs(x, P, W) ==
  [k \in 1..Len(W) |->
     [value |-> RSum([j \in 1..Len(x) |-> RMul(FromFloat(W[k][j]), x[j])]),
      variance |-> RSum([j \in 1..Len(x) |->
                     RSum([l \in 1..Len(x) |->
                        RMul(RMul(FromFloat(W[k][j]), P[j][l]), FromFloat(W[k][l]))])])]]

\* compute_nowcast after determine_statespace: one (location, value, spread)
\* per output location, the spread by its square.
compute_nowcast(statespace, noise, reading) ==
  LET f == fuse(reading, get_cov(noise), statespace.H)
      ys == extract_outputs(f.x, f.P, statespace.W)
  IN  IF ~f.ok THEN [ok |-> FALSE, nc |-> <<>>]
      ELSE [ok |-> TRUE,
            nc |-> [k \in 1..Len(statespace.output_locations) |->
                      [location |-> statespace.output_locations[k],
                       value |-> ys[k].value,
                       variance |-> ys[k].variance]]]

\* A call of compute_nowcast: it calls determine_statespace first.
NowcastCall ==
  /\ ss_pc = "idle"
  /\ nc_call = None
  /\ \E inputs \in NowcastInputs, seas \in Seasons, excl \in NowcastExcludes,
        noise \in [1..2 -> NoiseLevels], reading \in [1..2 -> Readings] :
       /\ Enter(inputs, "atoms_only", seas, excl)
       /\ nc_call' = Some([noise |-> noise, reading |-> reading])
  /\ UNCHANGED nowcast
  /\ UNCHANGED restOfNowcast

\* The fusion of the readings over the statespace that came back.
Fuse ==
  /\ ss_pc = "returned"
  /\ nc_call # None
  /\ nowcast = None
  /\ nowcast' = Some(compute_nowcast(result[1], nc_call[1].noise, nc_call[1].reading))
  /\ UNCHANGED <<ssVars, nc_call>>
  /\ UNCHANGED restOfNowcast

\* compute_nowcast returns its list, or the exception of determine_statespace
\* leaves it.
NowcastReturn ==
  /\ nc_call # None
  /\ \/ ss_pc = "returned" /\ nowcast # None
     \/ ss_pc = "raised"
  /\ Return
  /\ nc_call' = None
  /\ nowcast' = None
  /\ UNCHANGED restOfNowcast

NextNowcast == NowcastCall \/ BuildMatrices \/ SelectStatespace \/ Fuse \/ NowcastReturn

SpecNowcast == InitStatespace /\ [][NextNowcast]_vars

(***************************************************************************)
(* Properties of compute_nowcast, checked under SpecNowcast.               *)
(***************************************************************************)

\* The call is for two different atoms.
TwoUnrelatedAtoms ==
  /\ nc_call # None
  /\ Len(input_locations) = 2
  /\ input_locations[1] # input_locations[2]

\* The place of a location in the filtered catalogue (0: not in it).
CataloguePlace(loc) ==
  IF \E j \in 1..Len(all_locations) : all_locations[j] = loc
    THEN CHOOSE j \in 1..Len(all_locations) : all_locations[j] = loc
    ELSE 0

C21_WitnessRedundant ==
  /\ nc_call # None
  /\ input_locations = <<"nd", "nd">>
  /\ nc_call[1] = [noise |-> <<11, 13>>, reading |-> <<17, 19>>]
  /\ nowcast # None
  /\ Len(nowcast[1].nc) = 1
  /\ nowcast[1].nc[1].value[1] > 17 * nowcast[1].nc[1].value[2]
  /\ nowcast[1].nc[1].value[1] < 19 * nowcast[1].nc[1].value[2]
  /\ nowcast[1].nc[1].variance[1] < 121 * nowcast[1].nc[1].variance[2]

(***************************************************************************)
(* Part VI.  target_update.main: the target values of a run are recorded   *)
(* in the table datasetname_targets with one INSERT ... ON DUPLICATE KEY   *)
(* UPDATE per row, in one transaction.                                     *)
(***************************************************************************)

\* Bounds of the model: the rows of one run and the number of runs.
MaxBatch == 2
MaxRuns == 3

\* What Epidata.datasetname answers with, row by row: a location as the source
\* spells it, an epiweek and a rate (an integer here; None: the rate is missing).
SourceLocations == {"AK", "ak"}
SourceEpiweeks == {201701, 201702}
SourceRates == {Some(17), Some(16777217), None}
SourceRows == [location : SourceLocations, epiweek : SourceEpiweeks, rate : SourceRates]
SourceBatches == UNION {[1..n -> SourceRows] : n \in 0..MaxBatch}

\* target_df: the target's name, the rate as value, the location in lower case.
target_df(rows) ==
  [i \in 1..Len(rows) |->
     [target |-> "datasetname_rate", epiweek |-> rows[i].epiweek,
      location |-> lower(rows[i].location), value |-> rows[i].rate]]

\* The column `value` FLOAT: the nearest number with 24 significant bits, ties
\* to the even one.
RECURSIVE FloatStep(_, _)
FloatStep(v, q) == IF v < 16777216 * q THEN q ELSE FloatStep(v, 2 * q)

AsSingle(v) ==
  LET q == FloatStep(v, 1)
      low == (v \div q) * q
  IN  IF 2 * (v % q) < q THEN low
      ELSE IF 2 * (v % q) > q THEN low + q
      ELSE IF (v \div q) % 2 = 0 THEN low ELSE low + q

\* UNIQUE KEY `entry` (`target`, `epiweek`, `location`)
entry(row) == <<row.target, row.epiweek, row.location>>

\* The row as the table stores it.
Stored(row) ==
  [target |-> row.target, epiweek |-> row.epiweek, location |-> row.location,
   value |-> AsSingle(row.value[1])]

\* A variant of the insert that leaves an existing row as it is.
Upsert_KeepsFirst(tbl, row) ==
  IF \E i \in 1..Len(tbl) : entry(tbl[i]) = entry(row)
    THEN tbl
    ELSE Append(tbl, Stored(row))

\* INSERT INTO ... VALUES (...) ON DUPLICATE KEY UPDATE ...: the row with the
\* same entry takes the new values and keeps its id; without one, a new row.
Upsert(tbl, row) ==
  IF \E i \in 1..Len(tbl) : entry(tbl[i]) = entry(row)
    THEN [i \in 1..Len(tbl) |-> IF entry(tbl[i]) = entry(row) THEN Stored(row) ELSE tbl[i]]
    ELSE Append(tbl, Stored(row))

\* cursor.executemany: the rows in order.  `value` is NOT NULL: a row without a
\* value raises.
RECURSIVE executemany(_, _)
executemany(tbl, rows) ==
  IF rows = <<>> THEN [ok |-> TRUE, table |-> tbl]
  ELSE IF Head(rows).value = None THEN [ok |-> FALSE, table |-> tbl]
  ELSE executemany(Upsert(tbl, Head(rows)), Tail(rows))

\* History: the last value committed for each entry, as it was given.
RECURSIVE LatestAfter(_, _)
LatestAfter(seen, rows) ==
  IF rows = <<>> THEN seen
  ELSE LatestAfter([k \in DOMAIN seen \cup {entry(Head(rows))} |->
                      IF k = entry(Head(rows)) THEN Head(rows).value[1] ELSE seen[k]],
                   Tail(rows))

\* One run of main: executemany and commit, or an exception and no commit.
Main ==
  /\ runs < MaxRuns
  /\ \E batch \in SourceBatches :
       LET rows == target_df(batch)
           done == executemany(table, rows)
       IN  /\ table' = IF done.ok THEN done.table ELSE table
           /\ latest' = IF done.ok THEN LatestAfter(latest, rows) ELSE latest
           /\ record_last' = Some([before |-> table, rows |-> rows,
                                   outcome |-> IF done.ok THEN "committed" ELSE "raised"])
  /\ runs' = runs + 1
  /\ UNCHANGED restOfTarget

\* The same table, seen by a later process.
NewProcess ==
  /\ runs = MaxRuns
  /\ runs' = 0
  /\ record_last' = None
  /\ UNCHANGED <<table, latest>>
  /\ UNCHANGED restOfTarget

NextTarget == Main \/ NewProcess

SpecTarget == InitStatespace /\ [][NextTarget]_vars

(***************************************************************************)
(* Properties of the table, checked under SpecTarget.                      *)
(***************************************************************************)

\* The rows of the table with a given entry.
RowsOf(k) == {i \in 1..Len(table) : entry(table[i]) = k}

\* The last run committed rows that were all in the table already, with the
\* values they have there.
InsertedAgain ==
  /\ record_last # None
  /\ record_last[1].outcome = "committed"
  /\ record_last[1].rows # <<>>
  /\ \A i \in 1..Len(record_last[1].rows) :
       \E j \in 1..Len(record_last[1].before) :
         record_last[1].before[j] = Stored(record_last[1].rows[i])

\* C22: after any sequence of committed inserts the table has exactly one row
\* for every key (target, epiweek, location) that was inserted and no other row,
\* and that row carries the value of the latest insert for the key, as the
\* FLOAT column stores it; inserting again what the table already holds leaves
\* the table as it was.
C22_UpsertKeepsLatest ==
  /\ \A k \in DOMAIN latest :
       /\ Cardinality(RowsOf(k)) = 1
       /\ \A i \in RowsOf(k) : table[i].value = AsSingle(latest[k])
  /\ \A i \in 1..Len(table) : entry(table[i]) \in DOMAIN latest
  /\ InsertedAgain => table = record_last[1].before

\* Two runs: ("ak", 201701) recorded with 17, then with 16777217 as "AK": one
\* row for the key, with the second value as a FLOAT.
C22_Witness ==
  /\ record_last # None
  /\ record_last[1].outcome = "committed"
  /\ \E j \in 1..Len(record_last[1].before) :
       /\ entry(record_last[1].before[j]) = <<"datasetname_rate", 201701, "ak">>
       /\ record_last[1].before[j].value = 17
  /\ \E i \in 1..Len(record_last[1].rows) :
       /\ entry(record_last[1].rows[i]) = <<"datasetname_rate", 201701, "ak">>
       /\ record_last[1].rows[i].value = Some(16777217)
  /\ Cardinality(RowsOf(<<"datasetname_rate", 201701, "ak">>)) = 1
  /\ \A i \in RowsOf(<<"datasetname_rate", 201701, "ak">>) : table[i].value = 16777216

\* A run that records again a row the table already has.
C22_WitnessAgain ==
  /\ InsertedAgain
  /\ table = record_last[1].before
  /\ table # <<>>

(***************************************************************************)
(* Part VII.  DatasetnameDataSource (util/datasetname_data_source): the    *)
(* cache of target values and sensor readings, filled by prefetch and by   *)
(* the lookups that miss it.                                               *)
(***************************************************************************)

FIRST_DATA_EPIWEEK == 199301

\* DatasetnameDataSource.TARGET_LOCATIONS and SENSORS, cut to their first
\* entries; SENSOR_LOCATIONS (Part I) is the same list as TARGET_LOCATIONS.
TARGET_LOCATIONS == <<"ak", "al">>
SENSORS == <<"ght">>

\* The weeks and locations the model looks up; 'nat' is in no list.
SourceWeeks == {199301, 199302}
LookupLocations == {"ak", "nat"}

\* What the remote source has: a value (Some) or nothing (None).
RemoteValue(name, loc, ew) ==
  CASE name = "datasetname_targets" /\ loc = "ak" /\ ew = 199301 -> Some(17)
    [] name = "datasetname_targets" /\ loc = "al" /\ ew = 199302 -> Some(13)
    [] name = "ght" /\ loc = "ak" /\ ew = 199302 -> Some(11)
    [] OTHER -> None

\* An Epidata request for the given weeks, in order: result 1 and the rows, or
\* -2 (no results); a request that fails answers with another result.
Response(name, loc, ews, fails) ==
  LET found == SelectSeq(ews, LAMBDA w : RemoteValue(name, loc, w) # None)
  IN  IF fails THEN [result |-> 0, epidata |-> <<>>]
      ELSE IF found = <<>> THEN [result |-> -2, epidata |-> <<>>]
      ELSE [result |-> 1,
            epidata |-> [i \in 1..Len(found) |->
                           [epiweek |-> found[i],
                            value |-> RemoteValue(name, loc, found[i])[1]]]]

\* add_to_cache: the cache with the value (None or Some) under the key.
add_to_cache(c, name, loc, ew, value) ==
  [k \in DOMAIN c \cup {<<name, loc, ew>>} |->
     IF k = <<name, loc, ew>> THEN value ELSE c[k]]

\* A variant of the miss that lets Epidata.check raise on a result other than 1.
Miss_Checked(c, name, loc, ew, fails) ==
  LET response == Response(name, loc, <<ew>>, fails)
  IN  IF response.result # 1
        THEN [cache |-> c, outcome |-> "raised", value |-> None, requests |-> 1]
        ELSE [cache |-> add_to_cache(c, name, loc, ew, Some(response.epidata[1].value)),
              outcome |-> "returned", value |-> Some(response.epidata[1].value),
              requests |-> 1]

\* The except KeyError branch of get_truth_value and get_sensor_value: one
\* request; None is cached and returned unless the result is 1.
Miss(c, name, loc, ew, fails) ==
  LET response == Response(name, loc, <<ew>>, fails)
  IN  IF response.result # 1
        THEN [cache |-> add_to_cache(c, name, loc, ew, None),
              outcome |-> "returned", value |-> None, requests |-> 1]
        ELSE [cache |-> add_to_cache(c, name, loc, ew, Some(response.epidata[1].value)),
              outcome |-> "returned", value |-> Some(response.epidata[1].value),
              requests |-> 1]

\* self.cache[name][self.target][location][epiweek], or the miss.
CacheOrMiss(c, name, loc, ew, fails) ==
  IF <<name, loc, ew>> \in DOMAIN c
    THEN [cache |-> c, outcome |-> "returned", value |-> c[<<name, loc, ew>>],
          requests |-> 0]
    ELSE Miss(c, name, loc, ew, fails)

get_truth_value(c, ew, loc, fails) ==
  CacheOrMiss(c, "datasetname_targets", loc, ew, fails)

\* add_to_cache for each row of a response.
RECURSIVE AddRows(_, _, _, _)
AddRows(c, name, loc, rows) ==
  IF rows = <<>> THEN c
  ELSE AddRows(add_to_cache(c, name, loc, Head(rows).epiweek, Some(Head(rows).value)),
               name, loc, Tail(rows))

\* prefetch, "default to None": every week and every name of the location.
Defaults(c, names, loc, ews) ==
  LET keys == {<<n, loc, w>> : n \in SetOf(names), w \in SetOf(ews)}
  IN  [k \in DOMAIN c \cup keys |-> IF k \in keys THEN None ELSE c[k]]

\* prefetch, the sensor readings of one location: extract() takes -2 as no
\* rows and lets Epidata.check raise on any other result than 1.  sent counts
\* the requests of the call so far; the request number failAt fails.
RECURSIVE PrefetchSensors(_, _, _, _, _, _)
PrefetchSensors(c, sens, loc, ews, sent, failAt) ==
  IF sens = <<>> THEN [cache |-> c, ok |-> TRUE, requests |-> sent]
  ELSE LET response == Response(Head(sens), loc, ews, sent + 1 = failAt)
       IN  IF response.result = -2
             THEN PrefetchSensors(c, Tail(sens), loc, ews, sent + 1, failAt)
           ELSE IF response.result # 1
             THEN [cache |-> c, ok |-> FALSE, requests |-> sent + 1]
           ELSE PrefetchSensors(AddRows(c, Head(sens), loc, response.epidata),
                                Tail(sens), loc, ews, sent + 1, failAt)

\* prefetch, the loop over get_truth_locations().
RECURSIVE PrefetchLocations(_, _, _, _, _)
PrefetchLocations(c, locs, ews, sent, failAt) ==
  IF locs = <<>> THEN [cache |-> c, ok |-> TRUE, requests |-> sent]
  ELSE LET loc == Head(locs)
           c1 == Defaults(c, <<"datasetname_targets">> \o SENSORS, loc, ews)
           response == Response("datasetname_targets", loc, ews, sent + 1 = failAt)
           c2 == AddRows(c1, "datasetname_targets", loc, response.epidata)
           sensed == PrefetchSensors(c2, SENSORS, loc, ews, sent + 1, failAt)
       IN  IF response.result # 1
             THEN [cache |-> c1, ok |-> FALSE, requests |-> sent + 1]
           ELSE IF ~InSeq(loc, SENSOR_LOCATIONS)
             THEN PrefetchLocations(c2, Tail(locs), ews, sent + 1, failAt)
           ELSE IF ~sensed.ok THEN sensed
           ELSE PrefetchLocations(sensed.cache, Tail(locs), ews, sensed.requests, failAt)

prefetch(c, ew, failAt) ==
  PrefetchLocations(c, TARGET_LOCATIONS, range_epiweeks(FIRST_DATA_EPIWEEK, ew), 0, failAt)

\* get_truth_value(epiweek, location)
GetTruthValue ==
  /\ \E ew \in SourceWeeks, loc \in LookupLocations, fails \in BOOLEAN :
       LET got == get_truth_value(source_cache, ew, loc, fails)
       IN  /\ source_cache' = got.cache
           /\ source_last' = Some([call |-> "get_truth_value",
                                   name |-> "datasetname_targets", location |-> loc,
                                   epiweek |-> ew,
                                   cached |-> <<"datasetname_targets", loc, ew>>
                                                \in DOMAIN source_cache,
                                   memoized |-> FALSE,
                                   outcome |-> got.outcome, value |-> got.value,
                                   requests |-> got.requests])
  /\ UNCHANGED sensor_memo
  /\ UNCHANGED restOfSource

\* get_sensor_value(epiweek, location, name), under functools.lru_cache: a
\* call with arguments seen before gets what was returned then.
GetSensorValue ==
  /\ \E ew \in SourceWeeks, loc \in LookupLocations, fails \in BOOLEAN :
       \E i \in 1..Len(SENSORS) :
         LET name == SENSORS[i]
             got == IF <<ew, loc, name>> \in DOMAIN sensor_memo
                      THEN [cache |-> source_cache, outcome |-> "returned",
                            value |-> sensor_memo[<<ew, loc, name>>], requests |-> 0]
                      ELSE CacheOrMiss(source_cache, name, loc, ew, fails)
         IN  /\ source_cache' = got.cache
             /\ sensor_memo' =
                  IF got.outcome = "returned"
                    THEN [k \in DOMAIN sensor_memo \cup {<<ew, loc, name>>} |->
                            IF k = <<ew, loc, name>> THEN got.value ELSE sensor_memo[k]]
                    ELSE sensor_memo
             /\ source_last' = Some([call |-> "get_sensor_value",
                                     name |-> name, location |-> loc, epiweek |-> ew,
                                     cached |-> <<name, loc, ew>> \in DOMAIN source_cache,
                                     memoized |-> <<ew, loc, name>> \in DOMAIN sensor_memo,
                                     outcome |-> got.outcome, value |-> got.value,
                                     requests |-> got.requests])
  /\ UNCHANGED restOfSource

\* prefetch(epiweek)
Prefetch ==
  /\ \E ew \in SourceWeeks, failAt \in 0..1 :
       LET got == prefetch(source_cache, ew, failAt)
       IN  /\ source_cache' = got.cache
           /\ source_last' = Some([call |-> "prefetch", name |-> "", location |-> "",
                                   epiweek |-> ew, cached |-> FALSE, memoized |-> FALSE,
                                   outcome |-> IF got.ok THEN "returned" ELSE "raised",
                                   value |-> None, requests |-> got.requests])
  /\ UNCHANGED sensor_memo
  /\ UNCHANGED restOfSource

NextSource == GetTruthValue \/ GetSensorValue \/ Prefetch

SpecSource == InitStatespace /\ [][NextSource]_vars

(***************************************************************************)
(* Properties of the data source, checked under SpecSource.                *)
(***************************************************************************)

\* The last call was a lookup.
LookedUp ==
  /\ source_last # None
  /\ source_last[1].call \in {"get_truth_value", "get_sensor_value"}

\* The key of the last lookup, and whether the remote source has a value there.
LookupKey == <<source_last[1].name, source_last[1].location, source_last[1].epiweek>>

RemoteHasNone ==
  RemoteValue(source_last[1].name, source_last[1].location, source_last[1].epiweek) = None

\* C23: a lookup (get_truth_value or get_sensor_value) for a location and week
\* at which the remote source has no value returns None and does not raise,
\* whether the key was already in the cache (prefetched or looked up before) or
\* not; afterwards the cache holds None under the key; and a get_truth_value
\* for a key the cache already holds sends no request.
C23_AbsentIsNone ==
  LookedUp =>
    /\ RemoteHasNone =>
         /\ source_last[1].outcome = "returned"
         /\ source_last[1].value = None
         /\ LookupKey \in DOMAIN source_cache
         /\ source_cache[LookupKey] = None
    /\ source_last[1].call = "get_truth_value" /\ source_last[1].cached =>
         source_last[1].requests = 0

\* get_truth_value for ('ak', 199302), where the remote source has nothing,
\* after a prefetch put the key in the cache: None, without a request.
C23_Witness ==
  /\ LookedUp
  /\ source_last[1].call = "get_truth_value"
  /\ LookupKey = <<"datasetname_targets", "ak", 199302>>
  /\ <<"datasetname_targets", "al", 199302>> \in DOMAIN source_cache
  /\ source_last[1].cached
  /\ source_last[1].value = None
  /\ source_last[1].requests = 0

\* A lookup that missed the cache at a key outside every list: one request,
\* None returned and recorded.
C23_WitnessMiss ==
  /\ LookedUp
  /\ source_last[1].location = "nat"
  /\ ~source_last[1].cached
  /\ ~source_last[1].memoized
  /\ source_last[1].requests = 1
  /\ source_last[1].value = None
  /\ source_cache[LookupKey] = None

====
